---------------------------- MODULE Spec2Model ----------------------------
(***************************************************************************)
(* A model of the wegtop agenda-item tracker (weg-top-tracker-repo):       *)
(*   - ingest/pipeline.py  IngestPipeline.ingest  (specification SpecIngest)*)
(*   - app.py              WEGTopApp.process_pdfs (specification SpecApp)   *)
(*   - top_parser.py       the decision helpers   (specification SpecFun)   *)
(*   - top_parser.py       parse_tops_from_corpus (specification SpecParse) *)
(*                                                                         *)
(* Python floats (the yields) are modelled as exact rationals <<num, den>> *)
(* with den >= 1; None is modelled by a sentinel of the value's own type.  *)
(***************************************************************************)
EXTENDS Integers, Sequences, FiniteSets, TLC

VARIABLES
    \* ---- IngestPipeline.ingest: configuration, position and locals
    cfg,            \* the pipeline's constructor arguments
    ipc,            \* position in ingest: plain, layout, ocr, return, done
    pages,          \* local `pages`
    pages_layout,   \* local `pages_layout` (<<>> until assigned)
    pages_ocr,      \* local `pages_ocr` (<<>> until assigned)
    plain_out,      \* what the primary extractor returned
    a0, a1, a2,     \* local yields; NoYield until assigned
    used_layout,
    used_ocr,
    ocr_raised,     \* the OCR extractor raised inside the try block
    warnings,       \* LOGGER.warning calls
    calls,          \* extractor invocations, in order
    outcome,        \* running | returned | raised
    result,         \* the IngestedPDF returned (NoResult until then)
    \* ---- WEGTopApp.process_pdfs
    pdfs,           \* the input documents, in input order
    fail_fast,
    apc,            \* position: loop, write, export, export_by_year, done, exit
    doc_i,          \* index of the next document of the for loop
    all_rows,
    qa_rows,
    errors,
    ingest_log,     \* documents handed to pipeline.ingest, in order
    parse_log,      \* documents handed to parser.parse, in order
    corpus_files,   \* documents whose corpus snapshot was saved
    out_files,      \* files written below out_dir: name -> content
    export_calls,   \* exporter invocations, in order, with their arguments
    \* ---- one call of a helper of top_parser.py, text_utils.py or pdf_ingest.py
    f_op,           \* the helper called
    f_text,         \* its text argument (a tuple of characters)
    f_arg,          \* its other argument: a file name, or the document json.loads gave
    f_explicit,     \* its Optional[bool] argument
    f_yes, f_no,    \* its Optional[int] arguments
    f_done,         \* the call has returned
    f_out,          \* what it returned
    \* ---- one call of parse_tops_from_corpus
    corpus,         \* the corpus dict handed in: source_path and pages
    ppc,            \* position: ready, done (idle under the other specifications)
    p_blocks,       \* local `blocks`, after the repair of the numbers
    p_out           \* the list returned

ingestVars == <<cfg, ipc, pages, pages_layout, pages_ocr, plain_out, a0, a1, a2,
                used_layout, used_ocr, ocr_raised, warnings, calls, outcome, result>>

appVars == <<pdfs, fail_fast, apc, doc_i, all_rows, qa_rows, errors, ingest_log,
             parse_log, corpus_files, out_files, export_calls>>

funVars == <<f_op, f_text, f_arg, f_explicit, f_yes, f_no, f_done, f_out>>

parseVars == <<corpus, ppc, p_blocks, p_out>>

vars == <<ingestVars, appVars, funVars, parseVars>>

(* what the actions of one part leave alone *)
notIngest == <<appVars, funVars, parseVars>>
notApp == <<ingestVars, funVars, parseVars>>
notFun == <<ingestVars, appVars, parseVars>>
notParse == <<ingestVars, appVars, funVars>>

-----------------------------------------------------------------------------
(* Bounds *)

MaxPages == 2
MaxDocs == 3
MaxRows == 2
MaxPhrases == 2
MaxBlocks == 2
MaxRepairBlocks == 3
MaxVoteLines == 2
MaxTitleBlocks == 2
MaxJsonPages == 2
MaxTextPieces == 3
MaxRepairNumbers == 3
MaxPagePieces == 3
MaxKindLines == 2

(* Per-page character counts the extractors may report. *)
CharCounts == {0, 100, 120, 300}

-----------------------------------------------------------------------------
(* Rationals standing for Python floats *)

Rat(n) == <<n, 1>>
RatMul(a, b) == <<a[1] * b[1], a[2] * b[2]>>
RatGt(a, b) == a[1] * b[2] > b[1] * a[2]
RatLt(a, b) == a[1] * b[2] < b[1] * a[2]
RatEq(a, b) == a[1] * b[2] = b[1] * a[2]

NoYield == <<-1, 1>>

-----------------------------------------------------------------------------
(* models.py: PageText (text is irrelevant to ingest and left out) *)

PageText(i, n) == [page_index |-> i, char_count |-> n]

PageLists ==
    UNION { { [i \in 1..n |-> PageText(i - 1, f[i])] : f \in [1..n -> CharCounts] }
            : n \in 0..MaxPages }

RECURSIVE SumChars(_)
SumChars(ps) ==
    IF ps = <<>> THEN 0 ELSE ps[1].char_count + SumChars(Tail(ps))

(* pipeline.py _avg_chars: sum(char_count) / len(pages) if pages else 0.0 *)
AvgChars(ps) ==
    IF Len(ps) > 0 THEN <<SumChars(ps), Len(ps)>> ELSE <<0, 1>>

-----------------------------------------------------------------------------
(* IngestPipeline.__init__: defaults, and the settings the tests use *)

DefaultMinAvg == 250
DefaultOcrMin == 200
DefaultLayoutGain == <<6, 5>>
DefaultOcrGain == <<3, 2>>

(* tests/test_ingest_and_extractors.py 49-59, and a setting with gains below 1 *)
TestMinAvg == 60
TestOcrMin == 100

Profiles ==
    { [min_avg |-> DefaultMinAvg, layout_gain |-> DefaultLayoutGain,
       ocr_gain |-> DefaultOcrGain, ocr_min |-> DefaultOcrMin],
      [min_avg |-> TestMinAvg, layout_gain |-> DefaultLayoutGain,
       ocr_gain |-> <<6, 5>>, ocr_min |-> TestOcrMin],
      [min_avg |-> DefaultMinAvg, layout_gain |-> <<1, 2>>,
       ocr_gain |-> <<1, 2>>, ocr_min |-> DefaultOcrMin] }

Configs ==
    { [layout |-> l, ocr |-> o, min_avg |-> p.min_avg, layout_gain |-> p.layout_gain,
       ocr_gain |-> p.ocr_gain, ocr_min |-> p.ocr_min]
      : l \in BOOLEAN, o \in BOOLEAN, p \in Profiles }

NoResult ==
    [source_path |-> "", pages |-> <<>>, used_layout |-> FALSE, used_ocr |-> FALSE,
     avg_chars_per_page |-> NoYield]

IngestStart(c) ==
    /\ cfg = c
    /\ ipc = "plain"
    /\ pages = <<>>
    /\ pages_layout = <<>>
    /\ pages_ocr = <<>>
    /\ plain_out = <<>>
    /\ a0 = NoYield
    /\ a1 = NoYield
    /\ a2 = NoYield
    /\ used_layout = FALSE
    /\ used_ocr = FALSE
    /\ ocr_raised = FALSE
    /\ warnings = 0
    /\ calls = <<>>
    /\ outcome = "running"
    /\ result = NoResult

(* pipeline.py 38-41: the primary extractor runs first; its exception leaves ingest *)
ExtractPlain ==
    /\ UNCHANGED notIngest
    /\ ipc = "plain"
    /\ calls' = Append(calls, "plain")
    /\ \/ \E r \in PageLists :
            /\ pages' = r
            /\ plain_out' = r
            /\ a0' = AvgChars(r)
            /\ ipc' = "layout"
            /\ outcome' = outcome
       \/ /\ ipc' = "done"
          /\ outcome' = "raised"
          /\ UNCHANGED <<pages, plain_out, a0>>
    /\ UNCHANGED <<cfg, pages_layout, pages_ocr, a1, a2, used_layout, used_ocr,
                   ocr_raised, warnings, result>>

(* pipeline.py 43 *)
LayoutWanted == cfg.layout /\ RatLt(a0, Rat(cfg.min_avg))

(* mutant: the layout pages are adopted whenever the layout extractor ran *)
LayoutAdoptsAlways(y1, y0) == cfg.layout

(* mutant: the comparison is not strict *)
LayoutAdoptsGe(y1, y0) == ~RatLt(y1, RatMul(y0, cfg.layout_gain))

(* pipeline.py 46: a1 > a0 * self._layout_gain *)
LayoutAdopts(y1, y0) == RatGt(y1, RatMul(y0, cfg.layout_gain))

(* pipeline.py 43-48 *)
LayoutStep ==
    /\ UNCHANGED notIngest
    /\ ipc = "layout"
    /\ \/ /\ LayoutWanted
          /\ calls' = Append(calls, "layout")
          /\ \/ \E r \in PageLists :
                  /\ pages_layout' = r
                  /\ a1' = AvgChars(r)
                  /\ IF LayoutAdopts(AvgChars(r), a0)
                     THEN pages' = r /\ used_layout' = TRUE
                     ELSE UNCHANGED <<pages, used_layout>>
                  /\ ipc' = "ocr"
                  /\ outcome' = outcome
             \/ /\ ipc' = "done"
                /\ outcome' = "raised"
                /\ UNCHANGED <<pages, pages_layout, a1, used_layout>>
       \/ /\ ~LayoutWanted
          /\ ipc' = "ocr"
          /\ UNCHANGED <<calls, pages, pages_layout, a1, used_layout, outcome>>
    /\ UNCHANGED <<cfg, pages_ocr, plain_out, a0, a2, used_ocr, ocr_raised,
                   warnings, result>>

(* mutant: the trigger reads the plain yield, not that of the pages chosen *)
OcrWantedStale == cfg.ocr /\ RatLt(a0, Rat(cfg.min_avg))

(* pipeline.py 50 *)
OcrWanted == cfg.ocr /\ RatLt(AvgChars(pages), Rat(cfg.min_avg))

(* mutant: the absolute floor is not checked *)
OcrAdoptsNoFloor(y2, cur) == RatGt(y2, RatMul(cur, cfg.ocr_gain))

(* pipeline.py 54 *)
OcrAdopts(y2, cur) ==
    /\ RatGt(y2, RatMul(cur, cfg.ocr_gain))
    /\ RatGt(y2, Rat(cfg.ocr_min))

(* mutant: no try block, the OCR extractor's exception leaves ingest *)
OcrFailurePropagates ==
    /\ ocr_raised' = TRUE
    /\ ipc' = "done"
    /\ outcome' = "raised"
    /\ UNCHANGED <<pages, pages_ocr, a2, used_ocr, warnings>>

(* pipeline.py 57-62: the except clause logs a warning and ingest goes on *)
OcrFailure ==
    /\ ocr_raised' = TRUE
    /\ warnings' = warnings + 1
    /\ ipc' = "return"
    /\ outcome' = outcome
    /\ UNCHANGED <<pages, pages_ocr, a2, used_ocr>>

(* pipeline.py 50-62: the try block around the OCR extractor *)
OcrStep ==
    /\ UNCHANGED notIngest
    /\ ipc = "ocr"
    /\ \/ /\ OcrWanted
          /\ calls' = Append(calls, "ocr")
          /\ \/ \E r \in PageLists :
                  /\ pages_ocr' = r
                  /\ a2' = AvgChars(r)
                  /\ IF OcrAdopts(AvgChars(r), AvgChars(pages))
                     THEN pages' = r /\ used_ocr' = TRUE
                     ELSE UNCHANGED <<pages, used_ocr>>
                  /\ UNCHANGED <<ocr_raised, warnings>>
                  /\ ipc' = "return"
                  /\ outcome' = outcome
             \/ OcrFailure
       \/ /\ ~OcrWanted
          /\ ipc' = "return"
          /\ UNCHANGED <<calls, pages, pages_ocr, a2, used_ocr, ocr_raised, warnings,
                         outcome>>
    /\ UNCHANGED <<cfg, pages_layout, plain_out, a0, a1, used_layout, result>>

(* mutant: the yield returned is the plain yield computed at the start *)
ReturnedAvgStale == a0

(* pipeline.py 69 *)
ReturnedAvg == AvgChars(pages)

(* mutant: used_layout is reported only while the layout pages are the ones
   returned *)
IngestReturnOnlyCurrentSource ==
    /\ UNCHANGED notIngest
    /\ ipc = "return"
    /\ result' = [source_path |-> "doc.pdf", pages |-> pages,
                  used_layout |-> used_layout /\ ~used_ocr, used_ocr |-> used_ocr,
                  avg_chars_per_page |-> ReturnedAvg]
    /\ outcome' = "returned"
    /\ ipc' = "done"
    /\ UNCHANGED <<cfg, pages, pages_layout, pages_ocr, plain_out, a0, a1, a2,
                   used_layout, used_ocr, ocr_raised, warnings, calls>>

(* pipeline.py 64-70 *)
IngestReturn ==
    /\ UNCHANGED notIngest
    /\ ipc = "return"
    /\ result' = [source_path |-> "doc.pdf", pages |-> pages,
                  used_layout |-> used_layout, used_ocr |-> used_ocr,
                  avg_chars_per_page |-> ReturnedAvg]
    /\ outcome' = "returned"
    /\ ipc' = "done"
    /\ UNCHANGED <<cfg, pages, pages_layout, pages_ocr, plain_out, a0, a1, a2,
                   used_layout, used_ocr, ocr_raised, warnings, calls>>

IngestNext == ExtractPlain \/ LayoutStep \/ OcrStep \/ IngestReturn

-----------------------------------------------------------------------------
(* app.py WEGTopApp.process_pdfs (cli.py main runs the same loop) *)

DocNames == <<"a.pdf", "b.pdf", "c.pdf", "d.pdf">>

PdfLists == { SubSeq(DocNames, 1, n) : n \in 0..MaxDocs }

(* str(exc) of what pipeline.ingest and parser.parse raise *)
IngestError == "bad pdf"
ParseError == "bad parse"

(* ParsedTOP.approved: True, False, None *)
ApprovedValues == {"True", "None"}

(* asdict(ParsedTOP), cut to the fields process_pdfs reads *)
ParsedRow(doc, k, appr) == [source_file |-> doc, top_number |-> k, approved |-> appr]

ParsedLists(doc) ==
    UNION { { [k \in 1..n |-> ParsedRow(doc, k, f[k])] : f \in [1..n -> ApprovedValues] }
            : n \in 0..MaxRows }

CountApproved(rows, v) == Cardinality({ k \in 1..Len(rows) : rows[k].approved = v })

(* app.py 53-63 *)
QaRow(doc, parsed) ==
    [file |-> doc,
     tops_detail |-> Len(parsed),
     approved |-> CountApproved(parsed, "True"),
     rejected |-> CountApproved(parsed, "False"),
     unknown |-> CountApproved(parsed, "None")]

ErrorRow(doc, msg) == [file |-> doc, error |-> msg]

AppStart(ps, ff) ==
    /\ pdfs = ps
    /\ fail_fast = ff
    /\ apc = "loop"
    /\ doc_i = 1
    /\ all_rows = <<>>
    /\ qa_rows = <<>>
    /\ errors = <<>>
    /\ ingest_log = <<>>
    /\ parse_log = <<>>
    /\ corpus_files = {}
    /\ out_files = <<>>
    /\ export_calls = <<>>

(* mutant: the first failure ends the run whatever fail_fast says *)
RecordErrorAlwaysExits(doc, msg) ==
    /\ errors' = Append(errors, ErrorRow(doc, msg))
    /\ apc' = "exit"
    /\ doc_i' = doc_i

(* mutant: fail_fast is ignored and the loop goes on *)
RecordErrorNeverExits(doc, msg) ==
    /\ errors' = Append(errors, ErrorRow(doc, msg))
    /\ apc' = apc
    /\ doc_i' = doc_i + 1

(* app.py 69-73: the except clause of the per-document try *)
RecordError(doc, msg) ==
    /\ errors' = Append(errors, ErrorRow(doc, msg))
    /\ IF fail_fast
       THEN apc' = "exit" /\ doc_i' = doc_i
       ELSE apc' = apc /\ doc_i' = doc_i + 1

(* app.py 42-44 and 69-73: pipeline.ingest raises *)
DocIngestFails ==
    /\ UNCHANGED notApp
    /\ apc = "loop"
    /\ doc_i <= Len(pdfs)
    /\ ingest_log' = Append(ingest_log, pdfs[doc_i])
    /\ RecordError(pdfs[doc_i], IngestError)
    /\ UNCHANGED <<pdfs, fail_fast, all_rows, qa_rows, parse_log, corpus_files,
                   out_files, export_calls>>

(* mutant: the QA row of the document is appended before the parser is called *)
DocParseFailsAfterQaRow ==
    /\ UNCHANGED notApp
    /\ apc = "loop"
    /\ doc_i <= Len(pdfs)
    /\ ingest_log' = Append(ingest_log, pdfs[doc_i])
    /\ corpus_files' = corpus_files \cup {pdfs[doc_i]}
    /\ parse_log' = Append(parse_log, pdfs[doc_i])
    /\ qa_rows' = Append(qa_rows, QaRow(pdfs[doc_i], <<>>))
    /\ RecordError(pdfs[doc_i], ParseError)
    /\ UNCHANGED <<pdfs, fail_fast, all_rows, out_files, export_calls>>

(* app.py 42-49 and 69-73: ingest returns, the snapshot is saved, parser.parse raises *)
DocParseFails ==
    /\ UNCHANGED notApp
    /\ apc = "loop"
    /\ doc_i <= Len(pdfs)
    /\ ingest_log' = Append(ingest_log, pdfs[doc_i])
    /\ corpus_files' = corpus_files \cup {pdfs[doc_i]}
    /\ parse_log' = Append(parse_log, pdfs[doc_i])
    /\ RecordError(pdfs[doc_i], ParseError)
    /\ UNCHANGED <<pdfs, fail_fast, all_rows, qa_rows, out_files, export_calls>>

(* mutant: the rows of a document are put in front of the rows collected so far *)
DocSucceedsPrepends ==
    /\ UNCHANGED notApp
    /\ apc = "loop"
    /\ doc_i <= Len(pdfs)
    /\ \E parsed \in ParsedLists(pdfs[doc_i]) :
          /\ all_rows' = parsed \o all_rows
          /\ qa_rows' = Append(qa_rows, QaRow(pdfs[doc_i], parsed))
    /\ ingest_log' = Append(ingest_log, pdfs[doc_i])
    /\ corpus_files' = corpus_files \cup {pdfs[doc_i]}
    /\ parse_log' = Append(parse_log, pdfs[doc_i])
    /\ doc_i' = doc_i + 1
    /\ UNCHANGED <<pdfs, fail_fast, apc, errors, out_files, export_calls>>

(* app.py 42-68: the document is ingested and parsed *)
DocSucceeds ==
    /\ UNCHANGED notApp
    /\ apc = "loop"
    /\ doc_i <= Len(pdfs)
    /\ \E parsed \in ParsedLists(pdfs[doc_i]) :
          /\ all_rows' = all_rows \o parsed
          /\ qa_rows' = Append(qa_rows, QaRow(pdfs[doc_i], parsed))
    /\ ingest_log' = Append(ingest_log, pdfs[doc_i])
    /\ corpus_files' = corpus_files \cup {pdfs[doc_i]}
    /\ parse_log' = Append(parse_log, pdfs[doc_i])
    /\ doc_i' = doc_i + 1
    /\ UNCHANGED <<pdfs, fail_fast, apc, errors, out_files, export_calls>>

(* app.py 75-86: parsed_tops_detail.jsonl always, errors.jsonl when there are errors *)
WriteFiles ==
    /\ UNCHANGED notApp
    /\ apc = "loop"
    /\ doc_i > Len(pdfs)
    /\ out_files' =
          IF errors # <<>>
          THEN <<[name |-> "parsed_tops_detail.jsonl", lines |-> Len(all_rows)],
                 [name |-> "errors.jsonl", lines |-> Len(errors)]>>
          ELSE <<[name |-> "parsed_tops_detail.jsonl", lines |-> Len(all_rows)]>>
    /\ apc' = "export"
    /\ UNCHANGED <<pdfs, fail_fast, doc_i, all_rows, qa_rows, errors, ingest_log,
                   parse_log, corpus_files, export_calls>>

(* app.py 88-94 *)
Export ==
    /\ UNCHANGED notApp
    /\ apc = "export"
    /\ export_calls' = Append(export_calls,
          [name |-> "export", all_tops_rows |-> all_rows, qa_rows |-> qa_rows])
    /\ apc' = "export_by_year"
    /\ UNCHANGED <<pdfs, fail_fast, doc_i, all_rows, qa_rows, errors, ingest_log,
                   parse_log, corpus_files, out_files>>

(* app.py 95-99 *)
ExportByYear ==
    /\ UNCHANGED notApp
    /\ apc = "export_by_year"
    /\ export_calls' = Append(export_calls,
          [name |-> "export_by_year", all_tops_rows |-> all_rows, qa_rows |-> qa_rows])
    /\ apc' = "done"
    /\ UNCHANGED <<pdfs, fail_fast, doc_i, all_rows, qa_rows, errors, ingest_log,
                   parse_log, corpus_files, out_files>>

AppNext ==
    \/ DocIngestFails
    \/ DocParseFails
    \/ DocSucceeds
    \/ WriteFiles
    \/ Export
    \/ ExportByYear

-----------------------------------------------------------------------------
(* Text: a Python str is a tuple of one-character strings *)

UpperChars == <<"A", "B", "C", "D", "E", "F", "G", "H", "I", "J", "K", "L", "M", "N", "O", "P", "Q", "R", "S", "T", "U", "V", "W", "X", "Y", "Z", "Ä", "Ö", "Ü">>
LowerChars == <<"a", "b", "c", "d", "e", "f", "g", "h", "i", "j", "k", "l", "m", "n", "o", "p", "q", "r", "s", "t", "u", "v", "w", "x", "y", "z", "ä", "ö", "ü">>

UpperSet == { UpperChars[k] : k \in 1..Len(UpperChars) }

LowerOf == [c \in UpperSet |-> LowerChars[CHOOSE k \in 1..Len(UpperChars) : UpperChars[k] = c]]

(* str.lower(), one character *)
LowerChar(c) == IF c \in UpperSet THEN LowerOf[c] ELSE c

(* the one element of a set that holds one *)
The(S) == CHOOSE x \in S : TRUE

(* str.lower() *)
LowerStr(t) == [i \in 1..Len(t) |-> LowerChar(t[i])]

(* t[i : i + len(c)] == c *)
MatchAt(t, i, c) ==
    /\ i + Len(c) - 1 <= Len(t)
    /\ \A k \in 1..Len(c) : t[i + k - 1] = c[k]

(* any(x in t for x in cues) *)
ContainsAny(t, cues) ==
    \E first \in {{ c[1] : c \in cues }} :
        \E i \in 1..Len(t) : t[i] \in first /\ \E c \in cues : MatchAt(t, i, c)

(* Optional[bool] is "True", "False" or "None"; Optional[int] is a number or NoneInt *)
NoneInt == -1

(* top_parser.py 228-229 *)
RejectionCues ==
    { <<"a", "b", "g", "e", "l", "e", "h", "n", "t">>,
      <<"n", "i", "c", "h", "t", " ", "a", "n", "g", "e", "n", "o", "m", "m", "e", "n">>,
      <<"n", "i", "c", "h", "t", " ", "b", "e", "s", "c", "h", "l", "o", "s", "s", "e", "n">>,
      <<"k", "e", "i", "n", " ", "b", "e", "s", "c", "h", "l", "u", "s", "s">>,
      <<"z", "u", "r", "ü", "c", "k", "g", "e", "s", "t", "e", "l", "l", "t">>,
      <<"v", "e", "r", "t", "a", "g", "t">>,
      <<"o", "h", "n", "e", " ", "b", "e", "s", "c", "h", "l", "u", "s", "s">>,
      <<"k", "e", "i", "n", "e", " ", "b", "e", "s", "c", "h", "l", "u", "s", "s", "f", "a", "s", "s", "u", "n", "g">>,
      <<"k", "e", "i", "n", "e", " ", "b", "e", "s", "c", "h", "l", "u", "s", "s">>,
      <<"b", "e", "s", "c", "h", "l", "u", "s", "s", "f", "a", "s", "s", "u", "n", "g", " ", "e", "n", "t", "f", "ä", "l", "l", "t">> }

(* top_parser.py 231-232 *)
ApprovalCues ==
    { <<"w", "i", "r", "d", " ", "a", "n", "g", "e", "n", "o", "m", "m", "e", "n">>,
      <<"a", "n", "g", "e", "n", "o", "m", "m", "e", "n">>,
      <<"b", "e", "s", "c", "h", "l", "i", "e", "ß", "t">>,
      <<"w", "i", "r", "d", " ", "b", "e", "s", "c", "h", "l", "o", "s", "s", "e", "n">>,
      <<"m", "e", "h", "r", "h", "e", "i", "t", "l", "i", "c", "h", " ", "b", "e", "s", "c", "h", "l", "o", "s", "s", "e", "n">>,
      <<"b", "e", "s", "c", "h", "l", "u", "s", "s", " ", "g", "e", "f", "a", "s", "s", "t">> }

(* top_parser.py 238 *)
QuorumKeywords ==
    { <<"e", "i", "n", "s", "t", "i", "m", "m", "i", "g", "k", "e", "i", "t">>,
      <<"q", "u", "o", "r", "u", "m">>,
      <<"2", "/", "3">>,
      <<"z", "w", "e", "i", " ", "d", "r", "i", "t", "t", "e", "l">>,
      <<"3", "/", "4">>,
      <<"d", "r", "e", "i", " ", "v", "i", "e", "r", "t", "e", "l">>,
      <<"q", "u", "a", "l", "i", "f", "i", "z", "i", "e", "r", "t", "e", " ", "m", "e", "h", "r", "h", "e", "i", "t">> }

(* mutant: the approval cues are looked for first *)
detect_explicit_decision_approval_first(block) ==
    LET b == LowerStr(block)
    IN IF ContainsAny(b, ApprovalCues) THEN "True"
       ELSE IF ContainsAny(b, RejectionCues) THEN "False"
       ELSE "None"

(* top_parser.py 228-234, on b = block.lower() *)
ExplicitIn(b) ==
    IF ContainsAny(b, RejectionCues) THEN "False"
    ELSE IF ContainsAny(b, ApprovalCues) THEN "True"
    ELSE "None"

(* top_parser.py 226-234 *)
detect_explicit_decision(block) == The({ ExplicitIn(b) : b \in {LowerStr(block)} })

(* top_parser.py 238, on b = block.lower() *)
QuorumIn(b) == ContainsAny(b, QuorumKeywords)

(* top_parser.py 236-238 *)
mentions_special_quorum(block) == \E b \in {LowerStr(block)} : QuorumIn(b)

(* mutant: the tallies are read before the explicit decision *)
ApprovedFromTalliesFirst(explicit, yes, no, quorum) ==
    IF yes # NoneInt /\ no # NoneInt
    THEN (IF yes > no THEN "True" ELSE "False")
    ELSE IF explicit # "None" THEN explicit
    ELSE "None"

(* top_parser.py 241-247, on quorum = mentions_special_quorum(block) *)
ApprovedFrom(explicit, yes, no, quorum) ==
    IF explicit # "None" THEN explicit
    ELSE IF quorum THEN "None"
    ELSE IF yes # NoneInt /\ no # NoneInt
         THEN (IF yes > no THEN "True" ELSE "False")
    ELSE "None"

(* mutant: a tie counts as approved *)
infer_approved_tie_approves(explicit, yes, no, block) ==
    IF explicit # "None" THEN explicit
    ELSE IF mentions_special_quorum(block) THEN "None"
    ELSE IF yes # NoneInt /\ no # NoneInt
         THEN (IF yes >= no THEN "True" ELSE "False")
    ELSE "None"

(* top_parser.py 240-247 *)
infer_approved(explicit, yes, no, block) ==
    ApprovedFrom(explicit, yes, no, mentions_special_quorum(block))

-----------------------------------------------------------------------------
(* Character classes of the re module, on the characters the model uses *)

Digits == <<"0", "1", "2", "3", "4", "5", "6", "7", "8", "9">>

DigitSet == { Digits[k] : k \in 1..Len(Digits) }

(* \d *)
IsDigit(c) == c \in DigitSet

(* int() of one digit *)
DigitVal(c) == (CHOOSE k \in 1..Len(Digits) : Digits[k] = c) - 1

(* \s, and what str.strip() removes *)
IsSpace(c) == c \in {" ", "\t", "\n", "\r"}

LetterSet ==
    { LowerChars[k] : k \in 1..Len(LowerChars) }
        \cup { UpperChars[k] : k \in 1..Len(UpperChars) } \cup {"ß"}

(* \w *)
IsWord(c) == c \in LetterSet \/ c \in DigitSet \/ c = "_"

(* [a-z] under re.I *)
IsAsciiLetter(c) ==
    \E k \in 1..26 : LowerChars[k] = c \/ UpperChars[k] = c

(* t[a:b] in Python's 0-based half-open form is Slice(t, a + 1, b) *)
Slice(t, from, to) == IF from > to THEN <<>> ELSE SubSeq(t, from, to)

(* index of the first character at or after i that is no white space *)
RECURSIVE SkipSpaces(_, _)
SkipSpaces(t, i) ==
    IF i <= Len(t) /\ IsSpace(t[i]) THEN SkipSpaces(t, i + 1) ELSE i

(* index after the run of digits that begins at i (i itself when there is none) *)
RECURSIVE SkipDigits(_, _)
SkipDigits(t, i) ==
    IF i <= Len(t) /\ IsDigit(t[i]) THEN SkipDigits(t, i + 1) ELSE i

(* index of the last character at or before i that is no white space, 0 when there is none *)
RECURSIVE SkipSpacesBack(_, _)
SkipSpacesBack(t, i) ==
    IF i >= 1 /\ IsSpace(t[i]) THEN SkipSpacesBack(t, i - 1) ELSE i

(* str.strip() *)
Strip(t) == Slice(t, SkipSpaces(t, 1), SkipSpacesBack(t, Len(t)))

(* the elements of a set of numbers, in increasing order *)
SortedSeq(S) ==
    [k \in 1..Cardinality(S) |-> CHOOSE x \in S : Cardinality({ y \in S : y < x }) = k - 1]

(* t without the characters at the indices in drop *)
Without(t, drop) ==
    IF drop = {} THEN t
    ELSE SelectSeq([i \in 1..Len(t) |-> IF i \in drop THEN "" ELSE t[i]], LAMBDA c : c # "")

(* str.replace(old, new) where new is one character and old, of one or two
   characters, cannot overlap itself: every occurrence is replaced *)
Replace(t, old, new) ==
    LET at == { i \in 1..Len(t) : t[i] = old[1] /\ MatchAt(t, i, old) }
    IN IF at = {} THEN t
       ELSE Without([i \in 1..Len(t) |-> IF i \in at THEN new[1] ELSE t[i]],
                    IF Len(old) = 2 THEN { i + 1 : i \in at } ELSE {})

-----------------------------------------------------------------------------
(* text_utils.py normalize_text *)

(* (\w)-\n(\w) matches at i *)
HyphenBreakAt(t, i) ==
    /\ i >= 1
    /\ i + 3 <= Len(t)
    /\ IsWord(t[i])
    /\ t[i + 1] = "-"
    /\ t[i + 2] = "\n"
    /\ IsWord(t[i + 3])

(* re.sub goes left to right and its matches do not overlap: a match at i is
   replaced unless the one at i - 3, which ends on t[i], is *)
RECURSIVE HyphenBreakTaken(_, _)
HyphenBreakTaken(t, i) ==
    HyphenBreakAt(t, i) /\ ~(HyphenBreakAt(t, i - 3) /\ HyphenBreakTaken(t, i - 3))

(* text_utils.py 36: re.sub(r"(\w)-\n(\w)", r"\1\2", text) *)
Dehyphenate(t) ==
    LET at == { i \in 1..Len(t) : t[i] = "-" /\ HyphenBreakTaken(t, i - 1) }
    IN Without(t, at \cup { i + 1 : i \in at })

(* text_utils.py 37-40: the twelve replacements, in the order of the code *)
UmlautRepairs ==
    << <<<<"a", "¨">>, <<"ä">>>>, <<<<"o", "¨">>, <<"ö">>>>,
       <<<<"u", "¨">>, <<"ü">>>>, <<<<"A", "¨">>, <<"Ä">>>>,
       <<<<"O", "¨">>, <<"Ö">>>>, <<<<"U", "¨">>, <<"Ü">>>>,
       <<<<"¨", "a">>, <<"ä">>>>, <<<<"¨", "o">>, <<"ö">>>>,
       <<<<"¨", "u">>, <<"ü">>>>, <<<<"¨", "A">>, <<"Ä">>>>,
       <<<<"¨", "O">>, <<"Ö">>>>, <<<<"¨", "U">>, <<"Ü">>>> >>

RECURSIVE RepairUmlautsFrom(_, _)
RepairUmlautsFrom(t, k) ==
    IF k > Len(UmlautRepairs) THEN t
    ELSE RepairUmlautsFrom(Replace(t, UmlautRepairs[k][1], UmlautRepairs[k][2]), k + 1)

(* the diaeresis is rare: a text without one is left as it is by all twelve *)
RepairUmlauts(t) ==
    IF \E i \in 1..Len(t) : t[i] = "¨" THEN RepairUmlautsFrom(t, 1) ELSE t

(* the indices at which a line begins: 1, and what follows each "\n" *)
LineStarts(t) == {1} \cup { i + 1 : i \in { j \in 1..Len(t) : t[j] = "\n" } }

(* the index of the "\n" that ends the line begun at i, Len(t) + 1 for the last line *)
LineEnd(t, i) ==
    LET nl == { j \in i..Len(t) : t[j] = "\n" }
    IN IF nl = {} THEN Len(t) + 1 ELSE CHOOSE j \in nl : \A k \in nl : j <= k

(* text_utils.py 5-8: ^DSZ_[A-Z].*$ | ^ALTMP_.*\.PDF$ on the line t[i..e-1] *)
IsNoiseLine(t, i, e) ==
    \/ /\ MatchAt(t, i, <<"D", "S", "Z", "_">>)
       /\ i + 4 < e
       /\ \E k \in 1..26 : UpperChars[k] = t[i + 4]
    \/ /\ MatchAt(t, i, <<"A", "L", "T", "M", "P", "_">>)
       /\ e - 4 >= i + 6
       /\ MatchAt(t, e - 4, <<".", "P", "D", "F">>)

(* text_utils.py 41: NOISE_RE.sub("", text) empties the lines that match *)
StripNoise(t) ==
    LET noisy == { i \in LineStarts(t) :
                     i <= Len(t) /\ t[i] \in {"D", "A"} /\ IsNoiseLine(t, i, LineEnd(t, i)) }
    IN IF noisy = {} THEN t
       ELSE Without(t, UNION { i..(LineEnd(t, i) - 1) : i \in noisy })

(* text_utils.py 42: re.sub(r"[ \t]+", " ", text) *)
CollapseBlanks(t) ==
    Without(IF \E i \in 1..Len(t) : t[i] = "\t"
            THEN [i \in 1..Len(t) |-> IF t[i] = "\t" THEN " " ELSE t[i]]
            ELSE t,
            { i \in 2..Len(t) : t[i] \in {" ", "\t"} /\ t[i - 1] \in {" ", "\t"} })

(* text_utils.py 43: re.sub(r"\n{4,}", "\n\n\n", text) *)
CollapseNewlines(t) ==
    Without(t, { i \in 4..Len(t) :
                   t[i] = "\n" /\ t[i - 1] = "\n" /\ t[i - 2] = "\n" /\ t[i - 3] = "\n" })

(* text_utils.py 23-44; unicodedata.normalize("NFC", ...) changes none of the
   characters of the model, which holds no combining character *)
normalize_text(text) ==
    IF text = <<>> THEN <<>>
    ELSE LET t1 == Replace(Replace(text, <<"\r", "\n">>, <<"\n">>), <<"\r">>, <<"\n">>)
             t2 == Dehyphenate(t1)
             t3 == RepairUmlauts(t2)
             t4 == StripNoise(t3)
             t5 == CollapseBlanks(t4)
             t6 == CollapseNewlines(t5)
         IN Strip(t6)

-----------------------------------------------------------------------------
(* top_parser.py: headers, blocks and TOP numbers *)

(* \b at index e, which lies between t[e - 1] and t[e] *)
WordBoundary(t, e) ==
    (e > 1 /\ e - 1 <= Len(t) /\ IsWord(t[e - 1])) # (e >= 1 /\ e <= Len(t) /\ IsWord(t[e]))

(* a literal in lower case matched at i under re.I *)
MatchAtI(t, i, c) ==
    /\ i >= 1
    /\ i + Len(c) - 1 <= Len(t)
    /\ \A k \in 1..Len(c) : LowerChar(t[i + k - 1]) = c[k]

(* [\s\).:-] *)
IsHeaderSep(c) == IsSpace(c) \/ c \in {")", ".", ":", "-"}

RECURSIVE SkipHeaderSeps(_, _)
SkipHeaderSeps(t, i) ==
    IF i <= Len(t) /\ IsHeaderSep(t[i]) THEN SkipHeaderSeps(t, i + 1) ELSE i

(* top_parser.py 11: \d+[\s\).:-]+ from d; the index after it, 0 when it does not match *)
NumberedPrefixEnd(t, d) ==
    LET e == SkipDigits(t, d)
        s == SkipHeaderSeps(t, e)
    IN IF e > d /\ s > e THEN s ELSE 0

(* top_parser.py 11: the optional page prefix, (?:(?:seite|s\.)\s*\d+[\s\).:-]+|\d+[\s\).:-]+)?
   from j; the index after it, 0 when a prefix begins at j and does not match *)
HeaderPrefixEnd(t, j) ==
    IF MatchAtI(t, j, <<"s", "e", "i", "t", "e">>) THEN NumberedPrefixEnd(t, SkipSpaces(t, j + 5))
    ELSE IF MatchAtI(t, j, <<"s", ".">>) THEN NumberedPrefixEnd(t, SkipSpaces(t, j + 2))
    ELSE IF j <= Len(t) /\ IsDigit(t[j]) THEN NumberedPrefixEnd(t, j)
    ELSE j

(* top_parser.py 12: T\s*O\s*P from j; the index after it, 0 when it does not match *)
SpacedTopEnd(t, j) ==
    IF ~MatchAtI(t, j, <<"t">>) THEN 0
    ELSE LET o == SkipSpaces(t, j + 1)
         IN IF ~MatchAtI(t, o, <<"o">>) THEN 0
            ELSE LET p == SkipSpaces(t, o + 1)
                 IN IF MatchAtI(t, p, <<"p">>) THEN p + 1 ELSE 0

(* top_parser.py 12: the indices after a keyword that begins at j
   (TOP itself is one of the forms of T\s*O\s*P) *)
KeywordEnds(t, j) ==
    ({SpacedTopEnd(t, j)} \ {0})
        \cup (IF MatchAtI(t, j, <<"t", "a", "g", "e", "s", "o", "r", "d", "n", "u", "n", "g", "s">>)
              THEN {j + 13}
                      \cup (IF MatchAtI(t, j + 13, <<"p", "u", "n", "k", "t">>) THEN {j + 18} ELSE {})
                      \cup (IF MatchAtI(t, j + 13, <<"p", ".">>) THEN {j + 15} ELSE {})
              ELSE {})

(* top_parser.py 13: (?:(?:\s*[.,/]\s*|\s+)\d+) from p; the index after it, 0 when it does not match *)
SubNumberEnd(t, p) ==
    LET s == SkipSpaces(t, p)
    IN IF s <= Len(t) /\ t[s] \in {".", ",", "/"}
       THEN LET d == SkipSpaces(t, s + 1)
            IN IF d <= Len(t) /\ IsDigit(t[d]) THEN SkipDigits(t, d) ELSE 0
       ELSE IF s > p /\ s <= Len(t) /\ IsDigit(t[s]) THEN SkipDigits(t, s)
       ELSE 0

(* top_parser.py 13: [a-z]?\b from p, the letter taken when the boundary allows
   it; the index after it, 0 when no boundary is found *)
SuffixEnd(t, p) ==
    IF p <= Len(t) /\ IsAsciiLetter(t[p]) /\ WordBoundary(t, p + 1) THEN p + 1
    ELSE IF WordBoundary(t, p) THEN p
    ELSE 0

(* top_parser.py 13: (\d+(?:(?:\s*[.,/]\s*|\s+)\d+)?[a-z]?)\b from n; the index
   after the number, 0 when it does not match *)
HeaderNumberEnd(t, n) ==
    LET p1 == SkipDigits(t, n)
        p2 == SubNumberEnd(t, p1)
    IN IF p1 = n THEN 0
       ELSE IF p2 # 0 /\ SuffixEnd(t, p2) # 0 THEN SuffixEnd(t, p2)
       ELSE SuffixEnd(t, p1)

NoMatch == [start |-> 0, num |-> 0, end |-> 0]

(* top_parser.py 10-14: TOP_HEADER_RE matched at the line start i *)
HeaderMatch(t, i) ==
    LET j  == SkipSpaces(t, i)
        k  == HeaderPrefixEnd(t, j)
        es == IF k = 0 THEN {} ELSE
                { e \in KeywordEnds(t, k) :
                    /\ e <= Len(t) /\ IsSpace(t[e])
                    /\ HeaderNumberEnd(t, SkipSpaces(t, e)) # 0 }
    IN IF es = {} THEN NoMatch
       ELSE LET e == CHOOSE x \in es : TRUE
                n == SkipSpaces(t, e)
            IN [start |-> i, num |-> n, end |-> HeaderNumberEnd(t, n)]

(* top_parser.py 138: TOP_HEADER_RE.finditer(full_text): the matches among ms,
   those at the line starts of the text, that begin at or after index i *)
RECURSIVE HeaderMatchesFrom(_, _)
HeaderMatchesFrom(ms, i) ==
    LET later == { m \in ms : m.start >= i }
    IN IF later = {} THEN <<>>
       ELSE LET m == CHOOSE x \in later : \A y \in later : x.start <= y.start
            IN <<m>> \o HeaderMatchesFrom(ms, m.end)

HeaderMatches(t) ==
    HeaderMatchesFrom({ HeaderMatch(t, i) : i \in { j \in LineStarts(t) : j <= Len(t) } }
                          \ {NoMatch}, 1)

(* int() of a run of digits *)
RECURSIVE StrToInt(_)
StrToInt(ds) ==
    IF ds = <<>> THEN 0
    ELSE 10 * StrToInt(SubSeq(ds, 1, Len(ds) - 1)) + DigitVal(ds[Len(ds)])

(* str() of a number that is not negative *)
RECURSIVE IntToStr(_)
IntToStr(n) ==
    IF n < 10 THEN <<Digits[n + 1]>> ELSE IntToStr(n \div 10) \o <<Digits[(n % 10) + 1]>>

(* re.sub(r"\s+", "", s) *)
RemoveSpaces(t) == SelectSeq(t, LAMBDA c : ~IsSpace(c))

(* top_parser.py 58, 62: (\d+)([a-z]?)$ matches all of r from index d on *)
IsSubNumber(r, d) ==
    LET e == SkipDigits(r, d)
    IN /\ d <= Len(r)
       /\ e > d
       /\ \/ e = Len(r) + 1
          \/ e = Len(r) /\ IsAsciiLetter(r[e])

(* top_parser.py 38-70 *)
normalize_top_number(raw) ==
    LET s == Strip(raw)
    IN IF s = <<>> THEN s
       ELSE IF ~IsDigit(s[1]) \/ \E i \in 1..Len(s) : s[i] = "\n" THEN s
       ELSE LET e    == SkipDigits(s, 1)
                lead == Slice(s, 1, e - 1)
                rest == Strip(Slice(s, e, Len(s)))
            IN IF rest # <<>> /\ rest[1] \in {".", ",", "/"} /\ IsSubNumber(rest, SkipSpaces(rest, 2))
               THEN LowerStr(lead \o <<".">> \o Slice(rest, SkipSpaces(rest, 2), Len(rest)))
               ELSE IF IsSubNumber(rest, 1)
               THEN LowerStr(lead \o <<".">> \o rest)
               ELSE LowerStr([i \in 1..Len(RemoveSpaces(s)) |->
                        IF RemoveSpaces(s)[i] \in {",", "/"} THEN "." ELSE RemoveSpaces(s)[i]])

(* top_parser.py 15: <<<PAGE:(\d+)>>> matched at i; the index after it, 0 when it does not match *)
MarkerEnd(t, i) ==
    IF MatchAt(t, i, <<"<", "<", "<", "P", "A", "G", "E", ":">>)
    THEN LET e == SkipDigits(t, i + 8)
         IN IF e > i + 8 /\ MatchAt(t, e, <<">", ">", ">">>) THEN e + 3 ELSE 0
    ELSE 0

(* top_parser.py 125-126: the pairs (m.start(), page) as [s, p], s counted from 0 *)
_compute_markers(full_text) ==
    LET at == SortedSeq({ i \in 1..Len(full_text) :
                            full_text[i] = "<" /\ MarkerEnd(full_text, i) # 0 })
    IN [k \in 1..Len(at) |->
          [s |-> at[k] - 1,
           p |-> StrToInt(Slice(full_text, at[k] + 8, MarkerEnd(full_text, at[k]) - 4))]]

(* top_parser.py 128-135; pos is counted from 0 *)
RECURSIVE PageAtFrom(_, _, _, _)
PageAtFrom(markers, pos, k, pg) ==
    IF k > Len(markers) THEN pg
    ELSE IF markers[k].s <= pos THEN PageAtFrom(markers, pos, k + 1, markers[k].p)
    ELSE pg

(* mutant: only a marker that begins before pos counts *)
_page_at_before(markers, pos) == PageAtFrom(markers, pos - 1, 1, NoneInt)

_page_at(markers, pos) == PageAtFrom(markers, pos, 1, NoneInt)

(* top_parser.py 31-36: "\n".join(parts) of the marker and the text of each page *)
RECURSIVE JoinedPages(_)
JoinedPages(ps) ==
    IF ps = <<>> THEN <<>>
    ELSE LET p == ps[1]
             part == <<"\n">> \o <<"<", "<", "<", "P", "A", "G", "E", ":">> \o IntToStr(p.page_index) \o <<">", ">", ">">> \o <<"\n">>
                        \o <<"\n">> \o p.text
         IN IF Len(ps) = 1 THEN part ELSE part \o <<"\n">> \o JoinedPages(Tail(ps))

join_pages_with_markers(ps) == normalize_text(JoinedPages(ps))

(* top_parser.py 137-154; start and end are counted from 0, as in the code *)
split_top_blocks(full_text) ==
    LET ms      == HeaderMatches(full_text)
        markers == _compute_markers(full_text)
    IN [i \in 1..Len(ms) |->
          LET start == ms[i].start - 1
              end   == IF i + 1 <= Len(ms) THEN ms[i + 1].start - 1 ELSE Len(full_text)
              block == Strip(Slice(full_text, start + 1, end))
          IN [top_number |-> normalize_top_number(Slice(full_text, ms[i].num, ms[i].end - 1)),
              start      |-> start,
              end        |-> end,
              page_start |-> _page_at(markers, start),
              page_end   |-> _page_at(markers, end - 1),
              len        |-> Len(block),
              text       |-> block]]

-----------------------------------------------------------------------------
(* top_parser.py: votes, block kind, repair of run-together numbers *)

(* text_utils.py 68-72, on what the vote patterns capture, digits and dots:
   int() of the digits, None when there is none *)
safe_int(s) ==
    LET d == SelectSeq(Strip(s), LAMBDA c : c \notin {".", " "})
    IN IF d # <<>> /\ \A i \in 1..Len(d) : IsDigit(d[i]) THEN StrToInt(d) ELSE NoneInt

(* [\d\.] *)
IsCountChar(c) == IsDigit(c) \/ c = "."

RECURSIVE SkipCountChars(_, _)
SkipCountChars(t, i) ==
    IF i <= Len(t) /\ IsCountChar(t[i]) THEN SkipCountChars(t, i + 1) ELSE i

NoSpan == <<0, 0>>

(* top_parser.py 209-211: \s*[:=]?\s*([\d\.]+) from k; the span <<from, to>> of
   the group, to being the index after it *)
CountAfter(t, k) ==
    LET s1 == SkipSpaces(t, k)
        s2 == IF s1 <= Len(t) /\ t[s1] \in {":", "="} THEN SkipSpaces(t, s1 + 1) ELSE s1
        e  == SkipCountChars(t, s2)
    IN IF e > s2 THEN <<s2, e>> ELSE NoSpan

(* top_parser.py 209: Ja(?:-Stimmen)?|Jastimmen *)
JaLabels == { <<"j", "a", "-", "s", "t", "i", "m", "m", "e", "n">>,
      <<"j", "a">>,
      <<"j", "a", "s", "t", "i", "m", "m", "e", "n">> }

(* top_parser.py 210: Nein(?:-Stimmen)?|Neinstimmen *)
NeinLabels == { <<"n", "e", "i", "n", "-", "s", "t", "i", "m", "m", "e", "n">>,
      <<"n", "e", "i", "n">>,
      <<"n", "e", "i", "n", "s", "t", "i", "m", "m", "e", "n">> }

(* top_parser.py 211: Enthaltung(?:en)?|Enthaltungen? *)
EnthaltungLabels == { <<"e", "n", "t", "h", "a", "l", "t", "u", "n", "g", "e", "n">>,
      <<"e", "n", "t", "h", "a", "l", "t", "u", "n", "g">>,
      <<"e", "n", "t", "h", "a", "l", "t", "u", "n", "g", "e">> }

(* a label at p of the lower-cased text b, followed by its count *)
LabeledCountAt(b, p, labels) ==
    LET hits == { CountAfter(b, p + Len(l)) : l \in { x \in labels : MatchAt(b, p, x) } } \ {NoSpan}
    IN IF hits = {} THEN NoSpan ELSE CHOOSE h \in hits : TRUE

(* the first labelled count at or after index from *)
FirstLabeledCount(b, from, labels) ==
    LET first == (CHOOSE l \in labels : TRUE)[1]
        ps == { p \in from..Len(b) : b[p] = first /\ LabeledCountAt(b, p, labels) # NoSpan }
    IN IF ps = {} THEN NoSpan
       ELSE LabeledCountAt(b, CHOOSE p \in ps : \A q \in ps : p <= q, labels)

NoVotes == <<NoneInt, NoneInt, NoneInt>>

(* top_parser.py 208-215: the labelled form on b = block.lower() (the pattern
   is matched under re.I), NoVotes when it is not found *)
LabeledVotes(b) ==
    LET j == FirstLabeledCount(b, 1, JaLabels)
        n == IF j = NoSpan THEN NoSpan ELSE FirstLabeledCount(b, j[2], NeinLabels)
        a == IF n = NoSpan THEN NoSpan ELSE FirstLabeledCount(b, n[2], EnthaltungLabels)
    IN IF a = NoSpan THEN <<FALSE, NoVotes>>
       ELSE <<TRUE, <<safe_int(Slice(b, j[1], j[2] - 1)),
                      safe_int(Slice(b, n[1], n[2] - 1)),
                      safe_int(Slice(b, a[1], a[2] - 1))>>>>

(* str.splitlines() of a normalised text, whose only line break is "\n" *)
SplitLines(t) ==
    LET starts == SortedSeq({ i \in LineStarts(t) : i <= Len(t) })
    IN [k \in 1..Len(starts) |-> Slice(t, starts[k], LineEnd(t, starts[k]) - 1)]

(* top_parser.py 219: \b(stimmen|ja|nein|enth)\b under re.I, on a line in lower case *)
VoteHints == { <<"s", "t", "i", "m", "m", "e", "n">>,
      <<"j", "a">>,
      <<"n", "e", "i", "n">>,
      <<"e", "n", "t", "h">> }

(* mutant: the keyword is looked for anywhere, also inside a word *)
HasVoteHintInsideWords(ln) ==
    \E p \in 1..Len(ln) : \E w \in VoteHints : MatchAt(ln, p, w)

HasVoteHint(ln) ==
    \E p \in 1..Len(ln) : \E w \in VoteHints :
        MatchAt(ln, p, w) /\ WordBoundary(ln, p) /\ WordBoundary(ln, p + Len(w))

(* [\d\.]{1,10} from s, as long as it can be; the index after it, 0 when it does not match *)
CountRunEnd(ln, s) ==
    LET e == SkipCountChars(ln, s)
    IN IF e > s /\ e - s <= 10 THEN e ELSE 0

(* \s*/\s* from e; the index after it, 0 when it does not match *)
SlashEnd(ln, e) ==
    LET s == SkipSpaces(ln, e)
    IN IF e # 0 /\ s <= Len(ln) /\ ln[s] = "/" THEN SkipSpaces(ln, s + 1) ELSE 0

(* top_parser.py 220: \b([\d\.]{1,10})\s*/\s*([\d\.]{1,10})\s*/\s*([\d\.]{1,10})\b at s;
   the last group gives characters back until a word boundary follows it *)
TripleAt(ln, s) ==
    LET e1 == CountRunEnd(ln, s)
        s2 == SlashEnd(ln, e1)
        e2 == IF s2 = 0 THEN 0 ELSE CountRunEnd(ln, s2)
        s3 == SlashEnd(ln, e2)
        r3 == IF s3 = 0 THEN 0 ELSE SkipCountChars(ln, s3)
        ends == IF s3 = 0 THEN {}
                ELSE { e \in (s3 + 1)..r3 : e - s3 <= 10 /\ WordBoundary(ln, e) }
    IN IF ~WordBoundary(ln, s) \/ ends = {} THEN <<FALSE, NoVotes>>
       ELSE LET e3 == CHOOSE e \in ends : \A x \in ends : x <= e
            IN <<TRUE, <<safe_int(Slice(ln, s, e1 - 1)),
                         safe_int(Slice(ln, s2, e2 - 1)),
                         safe_int(Slice(ln, s3, e3 - 1))>>>>

(* top_parser.py 219-222: the unlabelled triple of one line *)
LineVotes(ln) ==
    LET at == { s \in 1..Len(ln) : IsCountChar(ln[s]) /\ TripleAt(ln, s)[1] }
    IN IF (\E i \in 1..Len(ln) : ln[i] = "/") /\ at # {} /\ HasVoteHint(ln)
       THEN TripleAt(ln, CHOOSE s \in at : \A x \in at : s <= x)
       ELSE <<FALSE, NoVotes>>

(* top_parser.py 218-224: the first line that yields a triple, on b = block.lower() *)
UnlabeledVotes(b) ==
    IF \A i \in 1..Len(b) : b[i] # "/" THEN NoVotes
    ELSE LET lines == SplitLines(b)
             hits  == { k \in 1..Len(lines) : LineVotes(lines[k])[1] }
         IN IF hits = {} THEN NoVotes
            ELSE LineVotes(lines[CHOOSE k \in hits : \A x \in hits : k <= x])[2]

(* top_parser.py 206-224, on b = block.lower(): letters are matched under re.I,
   and the counts hold none *)
VotesIn(b) ==
    The({ IF lab[1] THEN lab[2] ELSE UnlabeledVotes(b) : lab \in {LabeledVotes(b)} })

(* top_parser.py 206-224 *)
parse_votes_strict(block) == The({ VotesIn(b) : b \in {LowerStr(block)} })

(* top_parser.py 252 *)
AnnouncementPhrase == <<"v", "e", "r", "k", "ü", "n", "d", "e", "t", " ", "d", "a", "s", " ", "b", "e", "s", "c", "h", "l", "u", "s", "s", "e", "r", "g", "e", "b", "n", "i", "s">>

(* top_parser.py 252: the length from which a block counts as a detail block *)
DetailLength == 500

(* mutant: the length of the block does not count *)
KindFromWithoutLength(v, explicit, b, length) ==
    IF \/ (v[1] # NoneInt /\ v[2] # NoneInt)
       \/ explicit # "None"
       \/ ContainsAny(b, {AnnouncementPhrase})
    THEN "detail"
    ELSE "agenda_or_header"

(* top_parser.py 252-254, on the votes v and the decision explicit found in
   the block and on b = block_text.lower() *)
KindFrom(v, explicit, b, length) ==
    IF \/ (v[1] # NoneInt /\ v[2] # NoneInt)
       \/ explicit # "None"
       \/ length >= DetailLength
       \/ ContainsAny(b, {AnnouncementPhrase})
    THEN "detail"
    ELSE "agenda_or_header"

(* top_parser.py 249-254 *)
classify_block_kind(block_text, length) ==
    The({ KindFrom(VotesIn(b), ExplicitIn(b), b, length) : b \in {LowerStr(block_text)} })

(* top_parser.py 85, 111: int() of the leading digits of a TOP number *)
MajorOf(t) == StrToInt(Slice(t, 1, SkipDigits(t, 1) - 1))

(* top_parser.py 99-101: f"{base}.{sub}" *)
SplitCandidate(t) ==
    IntToStr(StrToInt(SubSeq(t, 1, Len(t) - 1))) \o <<".", t[Len(t)]>>

(* top_parser.py 96: numbers below this one are never rewritten *)
SuspiciousMajor == 20

(* mutant: a number is rewritten whether or not it is a jump *)
RewriteWantedWithoutJump(top_numbers, i) ==
    LET t      == top_numbers[i]
        majors == { MajorOf(top_numbers[j]) :
                      j \in { k \in 1..Len(top_numbers) :
                                top_numbers[k] # <<>> /\ IsDigit(top_numbers[k][1]) } }
        have   == { top_numbers[j] : j \in 1..Len(top_numbers) }
        n      == StrToInt(t)
        base   == StrToInt(SubSeq(t, 1, Len(t) - 1))
    IN /\ Len(t) \in {2, 3}
       /\ \A k \in 1..Len(t) : IsDigit(t[k])
       /\ n >= SuspiciousMajor
       /\ SplitCandidate(t) \notin have
       /\ base \in majors
       /\ \E j \in 1..Len(top_numbers) :
            /\ j # i
            /\ top_numbers[j] # <<>> /\ IsDigit(top_numbers[j][1])
            /\ MajorOf(top_numbers[j]) = base
            /\ j - i \in {-1, 1}

(* mutant: the base is looked for in the block before the suspect one only *)
RewriteWantedAfterBase(top_numbers, i) ==
    LET t      == top_numbers[i]
        majors == { MajorOf(top_numbers[j]) :
                      j \in { k \in 1..Len(top_numbers) :
                                top_numbers[k] # <<>> /\ IsDigit(top_numbers[k][1]) } }
        have   == { top_numbers[j] : j \in 1..Len(top_numbers) }
        n      == StrToInt(t)
        base   == StrToInt(SubSeq(t, 1, Len(t) - 1))
        others == majors \ {n}
    IN /\ Len(t) \in {2, 3}
       /\ \A k \in 1..Len(t) : IsDigit(t[k])
       /\ n >= SuspiciousMajor
       /\ SplitCandidate(t) \notin have
       /\ base \in majors
       /\ \E j \in 1..Len(top_numbers) :
            /\ top_numbers[j] # <<>> /\ IsDigit(top_numbers[j][1])
            /\ MajorOf(top_numbers[j]) = base
            /\ j - i = -1
       /\ others # {}
       /\ \E m \in others : (\A x \in others : x <= m) /\ n >= m + 2

(* top_parser.py 92-121: the block at index i asks for its number to be rewritten *)
RewriteWanted(top_numbers, i) ==
    LET t      == top_numbers[i]
        majors == { MajorOf(top_numbers[j]) :
                      j \in { k \in 1..Len(top_numbers) :
                                top_numbers[k] # <<>> /\ IsDigit(top_numbers[k][1]) } }
        have   == { top_numbers[j] : j \in 1..Len(top_numbers) }
        n      == StrToInt(t)
        base   == StrToInt(SubSeq(t, 1, Len(t) - 1))
        others == majors \ {n}
    IN /\ Len(t) \in {2, 3}
       /\ \A k \in 1..Len(t) : IsDigit(t[k])
       /\ n >= SuspiciousMajor
       /\ SplitCandidate(t) \notin have
       /\ base \in majors
       /\ \E j \in 1..Len(top_numbers) :
            /\ j # i
            /\ top_numbers[j] # <<>> /\ IsDigit(top_numbers[j][1])
            /\ MajorOf(top_numbers[j]) = base
            /\ j - i \in {-1, 1}
       /\ others # {}
       /\ \E m \in others : (\A x \in others : x <= m) /\ n >= m + 2

(* top_parser.py 72-123: the numbers that are keys of the mapping old -> new *)
repair_run_together_subtops(blocks) ==
    LET top_numbers == [i \in 1..Len(blocks) |-> blocks[i].top_number]
    IN { top_numbers[i] : i \in { k \in 1..Len(blocks) : RewriteWanted(top_numbers, k) } }

(* top_parser.py 297-300: every block whose number is a key takes the new number *)
ApplyRewrites(blocks) ==
    LET rewrites == repair_run_together_subtops(blocks)
    IN [i \in 1..Len(blocks) |->
          IF blocks[i].top_number \in rewrites
          THEN [blocks[i] EXCEPT !.top_number = SplitCandidate(blocks[i].top_number)]
          ELSE blocks[i]]

-----------------------------------------------------------------------------
(* text_utils.py clean_title_text and top_parser.py extract_title *)

(* None where a str is expected: no str holds an element of four characters *)
NoneStr == <<"None">>

(* top_parser.py 17-21 *)
GARBAGE_TITLE_TOKENS ==
    { <<"g", "e", "z", ".">>,
      <<"s", "e", "i", "t", "e", " ">>,
      <<"d", "s", "z", "_">>,
      <<"v", "e", "r", "s", "a", "m", "m", "l", "u", "n", "g", "s", "l", "e", "i", "t", "e", "r">>,
      <<"w", "o", "h", "n", "u", "n", "g", "s", "e", "i", "g", "e", "n", "t", "ü", "m", "e", "r">>,
      <<"v", "e", "r", "w", "a", "l", "t", "u", "n", "g", "s", "b", "e", "i", "r", "a", "t", "s", "v", "o", "r", "s", "i", "t", "z", "e", "n", "d", "e", "r">>,
      <<"p", "6", "0", "|", "|">>,
      <<"c", "l", "w", "t", "i">>,
      <<"b", "m", "p">>,
      <<"a", "l", "t", "m", "p">>,
      <<"<", "<", "<", "p", "a", "g", "e">>,
      <<"p", "r", "o", "t", "o", "k", "o", "l", "l", "a", "b", "s", "c", "h", "r", "i", "f", "t", " ", "d", "e", "r">> }

(* top_parser.py 23-29 *)
is_garbage_title(title) ==
    \/ title = NoneStr
    \/ \E t \in {LowerStr(Strip(title))} : t = <<>> \/ ContainsAny(t, GARBAGE_TITLE_TOKENS)

(* [a-z0-9_] under re.I *)
IsNameChar(c) == IsAsciiLetter(c) \/ IsDigit(c) \/ c = "_"

(* index after the run of [a-z0-9_] that begins at i (i itself when there is none) *)
RECURSIVE SkipNameChars(_, _)
SkipNameChars(t, i) ==
    IF i <= Len(t) /\ IsNameChar(t[i]) THEN SkipNameChars(t, i + 1) ELSE i

(* text_utils.py 12-21: TITLE_NOISE_RE matched at i; the index after the match,
   0 when there is none. The alternatives begin with different characters. *)
TitleNoiseEnd(t, i) ==
    IF MatchAtI(t, i, <<"<", "<", "<", "p", "a", "g", "e", ":">>)
    THEN LET e == SkipDigits(t, i + 8)
         IN IF e > i + 8 /\ MatchAt(t, e, <<">", ">", ">">>) THEN e + 3 ELSE 0
    ELSE IF ~WordBoundary(t, i) THEN 0
    ELSE IF MatchAtI(t, i, <<"d", "s", "z", "_">>)
    THEN LET e == SkipNameChars(t, i + 4)
         IN IF e > i + 4 /\ WordBoundary(t, e) THEN e ELSE 0
    ELSE IF MatchAtI(t, i, <<"a", "l", "t", "m", "p", "_">>)
    THEN LET e == SkipNameChars(t, i + 6)
         IN IF e > i + 6 /\ WordBoundary(t, e) THEN e ELSE 0
    ELSE IF MatchAtI(t, i, <<"p">>)
    THEN LET e == SkipDigits(t, i + 1)
         IN IF e >= i + 3 /\ MatchAt(t, e, <<"|", "|">>) THEN e + 2 ELSE 0
    ELSE IF MatchAtI(t, i, <<"c", "l", "w", "t", "i">>)
    THEN IF WordBoundary(t, i + 5) THEN i + 5 ELSE 0
    ELSE IF MatchAtI(t, i, <<"b", "m", "p">>)
    THEN IF WordBoundary(t, i + 3) THEN i + 3 ELSE 0
    ELSE 0

(* text_utils.py 53: TITLE_NOISE_RE.sub(" ", t). No match begins inside another:
   the page marker holds no boundary followed by a match, the others are runs
   of word characters, and the bars of p60|| begin none. *)
SubTitleNoise(t) ==
    LET first  == {"<", "d", "D", "a", "A", "p", "P", "c", "C", "b", "B"}
        starts == { i \in 1..Len(t) : t[i] \in first /\ TitleNoiseEnd(t, i) # 0 }
        inside == UNION { (s + 1)..(TitleNoiseEnd(t, s) - 1) : s \in starts }
    IN IF starts = {} THEN t
       ELSE Without([i \in 1..Len(t) |-> IF i \in starts THEN " " ELSE t[i]], inside)

(* the index of the last character of the token that begins at i *)
TokenEnd(t, i) ==
    CHOOSE e \in i..Len(t) :
        /\ \A j \in i..e : ~IsSpace(t[j])
        /\ (e = Len(t) \/ IsSpace(t[e + 1]))

(* text_utils.py 55: [tok for tok in re.split(r"\s+", t) if tok] *)
TitleTokens(t) ==
    LET starts == SortedSeq({ i \in 1..Len(t) :
                      ~IsSpace(t[i]) /\ (i = 1 \/ IsSpace(t[i - 1])) })
    IN [k \in 1..Len(starts) |-> SubSeq(t, starts[k], TokenEnd(t, starts[k]))]

(* text_utils.py 58: len(tok) >= 6 and re.search(r"(.)\1{3,}", tok) *)
IsRepeatedToken(tok) ==
    /\ Len(tok) >= 6
    /\ \E i \in 1..(Len(tok) - 3) : \A j \in 1..3 : tok[i + j] = tok[i]

(* " ".join(words) *)
RECURSIVE JoinSpaced(_)
JoinSpaced(ws) ==
    IF ws = <<>> THEN <<>>
    ELSE IF Len(ws) = 1 THEN ws[1]
    ELSE ws[1] \o <<" ">> \o JoinSpaced(Tail(ws))

(* re.sub(r"\s{2,}", " ", t): a run of two or more white spaces becomes one space *)
SqueezeSpaces(t) ==
    LET second == { i \in 2..Len(t) : IsSpace(t[i]) /\ IsSpace(t[i - 1]) }
    IN IF second = {} THEN t
       ELSE Without([i \in 1..Len(t) |->
                       IF i + 1 \in second /\ i \notin second THEN " " ELSE t[i]], second)

(* [\W_] *)
IsTitleEdge(c) == ~IsWord(c) \/ c = "_"

(* text_utils.py 63-64: re.sub(r"^[\W_]+", "", t) and re.sub(r"[\W_]+$", "", t) *)
StripTitleEdges(t) ==
    LET inner == { i \in 1..Len(t) : ~IsTitleEdge(t[i]) }
    IN IF inner = {} THEN <<>>
       ELSE SubSeq(t, CHOOSE i \in inner : \A j \in inner : i <= j,
                      CHOOSE i \in inner : \A j \in inner : i >= j)

(* text_utils.py 46-66 *)
clean_title_text(text) ==
    LET t1 == SubTitleNoise(Strip(text))
        t2 == JoinSpaced(SelectSeq(TitleTokens(t1), LAMBDA tok : ~IsRepeatedToken(tok)))
        t3 == Strip(SqueezeSpaces(t2))
        t4 == StripTitleEdges(t3)
    IN Strip(SqueezeSpaces(t4))

(* top_parser.py 160: \d+(?:(?:\s*[.,/]\s*|\s+)\d+)?[a-z]? from n, every part
   taken when it can be, since what follows matches any rest of the line *)
InlineNumberEnd(t, n) ==
    LET p1 == SkipDigits(t, n)
        p2 == IF SubNumberEnd(t, p1) # 0 THEN SubNumberEnd(t, p1) ELSE p1
    IN IF p2 <= Len(t) /\ IsAsciiLetter(t[p2]) THEN p2 + 1 ELSE p2

(* top_parser.py 182-183: the keywords of the header line that is dropped:
   T\s*O\s*P, TOP and Tagesordnungspunkt *)
PureKeywordEnds(t, j) ==
    ({SpacedTopEnd(t, j)} \ {0})
        \cup (IF MatchAtI(t, j, <<"t", "a", "g", "e", "s", "o", "r", "d", "n", "u", "n", "g", "s", "p", "u", "n", "k", "t">>) THEN {j + 18} ELSE {})

(* top_parser.py 158-160 and 182-183: ^\s*, the optional page prefix, a keyword
   (of the pure header when pure), \s+ and a digit; the index of that digit,
   0 when the line does not begin so *)
HeaderDigitAt(t, pure) ==
    LET k  == HeaderPrefixEnd(t, SkipSpaces(t, 1))
        ends == IF k = 0 THEN {}
                ELSE IF pure THEN PureKeywordEnds(t, k) ELSE KeywordEnds(t, k)
        ns == { SkipSpaces(t, e) : e \in { x \in ends : x <= Len(t) /\ IsSpace(t[x]) } }
        ds == { n \in ns : n <= Len(t) /\ IsDigit(t[n]) }
    IN IF ds = {} THEN 0 ELSE CHOOSE n \in ds : TRUE

(* top_parser.py 156-166 *)
header_inline_title(line) ==
    LET t == Strip(line)
        n == HeaderDigitAt(t, FALSE)
    IN IF n = 0 THEN NoneStr
       ELSE LET rest == Strip(Slice(t, InlineNumberEnd(t, n), Len(t)))
            IN IF rest = <<>> THEN NoneStr ELSE rest

(* top_parser.py 181-185 *)
IsPureHeaderLine(line) == HeaderDigitAt(line, TRUE) # 0

(* top_parser.py 190 *)
StopMarkers ==
    { <<"a", "b", "s", "t", "i", "m", "m", "u", "n", "g", "s", "e", "r", "g", "e", "b", "n", "i", "s">>,
      <<"e", "r", "g", "e", "b", "n", "i", "s">>,
      <<"b", "e", "m", "e", "r", "k", "u", "n", "g">>,
      <<"s", "a", "c", "h", "v", "e", "r", "h", "a", "l", "t">>,
      <<"b", "e", "g", "r", "ü", "n", "d", "u", "n", "g">>,
      <<"s", "t", "i", "m", "m", "b", "e", "r", "e", "c", "h", "t", "i", "g", "t">> }

(* top_parser.py 193: ln.lower().startswith(stop_markers) *)
StartsWithStopMarker(ln) == \E m \in StopMarkers : MatchAtI(ln, 1, m)

(* top_parser.py 192: lines[:12] *)
TitleLineLimit == 12

(* top_parser.py 201: > 200 *)
TitleBreakLength == 200

(* top_parser.py 204: title[:240] *)
TitleLength == 240

(* top_parser.py 201-202: the number of title lines after which the joined
   title is longer than 200 characters, Len(ls) when it never is *)
TitleLinesTaken(ls) ==
    LET over == { k \in 1..Len(ls) : Len(JoinSpaced(SubSeq(ls, 1, k))) > TitleBreakLength }
    IN IF over = {} THEN Len(ls) ELSE CHOOSE k \in over : \A j \in over : k <= j

(* top_parser.py 188-204, on the lines left after the header *)
TitleOfLines(lines) ==
    LET upto   == IF Len(lines) > TitleLineLimit THEN TitleLineLimit ELSE Len(lines)
        last   == Cardinality({ k \in 1..upto : \A j \in 1..k : ~StartsWithStopMarker(lines[j]) })
        seen   == [k \in 1..last |-> clean_title_text(lines[k])]
    IN The({ The({ IF title = <<>> THEN NoneStr
                   ELSE IF Len(title) > TitleLength THEN SubSeq(title, 1, TitleLength) ELSE title :
                     title \in {clean_title_text(Strip(JoinSpaced(SubSeq(kept, 1, TitleLinesTaken(kept)))))} }) :
               kept \in {SelectSeq(seen, LAMBDA ln : ln # <<>> /\ ~is_garbage_title(ln))} })

(* top_parser.py 168-204 *)
extract_title(block_text) ==
    The({ IF lines = <<>> THEN NoneStr
          ELSE The({ IF t # <<>> /\ ~is_garbage_title(t)
                     THEN IF Len(t) > TitleLength THEN SubSeq(t, 1, TitleLength) ELSE t
                     ELSE TitleOfLines(IF IsPureHeaderLine(lines[1]) THEN Tail(lines) ELSE lines) :
                       t \in { IF h = NoneStr THEN <<>> ELSE clean_title_text(h) :
                                  h \in {header_inline_title(lines[1])} } }) :
            lines \in { SelectSeq([k \in 1..Len(split) |-> Strip(split[k])], LAMBDA ln : ln # <<>>) :
                          split \in {SplitLines(block_text)} } })

-----------------------------------------------------------------------------
(* top_parser.py extract_meeting_date *)

(* format(n, "0wd"): the digits of n, with zeros in front up to the width w *)
Padded(n, w) ==
    LET ds == IntToStr(n)
    IN [k \in 1..(IF Len(ds) < w THEN w - Len(ds) ELSE 0) |-> "0"] \o ds

(* top_parser.py 260 and 264: f"{y:04d}-{mo:02d}-{d:02d}" *)
DateString(day, mo, y) ==
    Padded(StrToInt(y), 4) \o <<"-">> \o Padded(StrToInt(mo), 2) \o <<"-">> \o Padded(StrToInt(day), 2)

(* top_parser.py 257: (\d{1,2})\. from i: the index after the dot, 0 when it does not match *)
ShortNumberEnd(t, i) ==
    LET e == SkipDigits(t, i)
    IN IF e - i \in {1, 2} /\ MatchAt(t, e, <<".">>) THEN e + 1 ELSE 0

(* top_parser.py 257: \b(?:vom|am)\s+(\d{1,2})\.(\d{1,2})\.(\d{4})\b under re.I
   matched at i: the date it gives, None when it does not match *)
BodyDateAt(t, i) ==
    LET w  == IF MatchAtI(t, i, <<"v", "o", "m">>) THEN i + 3
              ELSE IF MatchAtI(t, i, <<"a", "m">>) THEN i + 2 ELSE 0
        d1 == SkipSpaces(t, w)
        d2 == ShortNumberEnd(t, d1)
        d3 == ShortNumberEnd(t, d2)
    IN IF /\ WordBoundary(t, i)
          /\ w # 0 /\ d1 > w
          /\ d2 # 0 /\ d3 # 0
          /\ d3 + 3 <= Len(t)
          /\ \A k \in 0..3 : IsDigit(t[d3 + k])
          /\ WordBoundary(t, d3 + 4)
       THEN DateString(SubSeq(t, d1, d2 - 2), SubSeq(t, d2, d3 - 2), SubSeq(t, d3, d3 + 3))
       ELSE NoneStr

(* top_parser.py 261: \b([0-3]\d)(0[1-9]|1[0-2])(20\d{2})\b matched at i: the
   date it gives, None when it does not match *)
FileDateAt(f, i) ==
    IF /\ WordBoundary(f, i)
       /\ i + 7 <= Len(f)
       /\ f[i] \in {"0", "1", "2", "3"}
       /\ IsDigit(f[i + 1])
       /\ \/ f[i + 2] = "0" /\ f[i + 3] \in DigitSet \ {"0"}
          \/ f[i + 2] = "1" /\ f[i + 3] \in {"0", "1", "2"}
       /\ f[i + 4] = "2" /\ f[i + 5] = "0"
       /\ IsDigit(f[i + 6]) /\ IsDigit(f[i + 7])
       /\ WordBoundary(f, i + 8)
    THEN DateString(SubSeq(f, i, i + 1), SubSeq(f, i + 2, i + 3), SubSeq(f, i + 4, i + 7))
    ELSE NoneStr

(* top_parser.py 256-265: re.search finds the leftmost match *)
extract_meeting_date(full_text, filename) ==
    LET inBody == { i \in 1..Len(full_text) :
                      LowerChar(full_text[i]) \in {"v", "a"} /\ BodyDateAt(full_text, i) # NoneStr }
        inFile == { i \in 1..Len(filename) : FileDateAt(filename, i) # NoneStr }
    IN IF inBody # {}
       THEN BodyDateAt(full_text, CHOOSE i \in inBody : \A j \in inBody : i <= j)
       ELSE IF inFile # {}
       THEN FileDateAt(filename, CHOOSE i \in inFile : \A j \in inFile : i <= j)
       ELSE NoneStr

-----------------------------------------------------------------------------
(* top_parser.py parse_tops_from_corpus *)

(* what the code computes from the text of a block, each time it needs it:
   top_parser.py 313-315 and 328-330 *)
FactsIn(b, length) ==
    The({ [votes    |-> v,
           explicit |-> e,
           kind     |-> KindFrom(v, e, b, length),
           approved |-> ApprovedFrom(e, v[1], v[2], QuorumIn(b))] :
             v \in {VotesIn(b)}, e \in {ExplicitIn(b)} })

BlockFacts(text, length) == The({ FactsIn(b, length) : b \in {LowerStr(text)} })

(* top_parser.py 316-321 *)
ScoreFrom(facts, length) ==
    << IF facts.kind = "detail" THEN 1 ELSE 0,
       IF facts.votes[1] # NoneInt /\ facts.votes[2] # NoneInt THEN 1 ELSE 0,
       IF facts.explicit # "None" THEN 1 ELSE 0,
       length >>

BlockScore(text, length) == ScoreFrom(BlockFacts(text, length), length)

(* a > b on tuples of numbers of one length *)
TupleGt(a, b) ==
    \E k \in 1..Len(a) : a[k] > b[k] /\ \A j \in 1..(k - 1) : a[j] = b[j]

(* mutant: a block that ties with the one kept replaces it *)
ScoreBeatsOrTies(new, old) == new = old \/ TupleGt(new, old)

(* mutant: the longer block wins *)
ScoreBeatsByLength(new, old) == new[4] > old[4]

(* top_parser.py 322: score > best[...]["score"] *)
ScoreBeats(new, old) == TupleGt(new, old)

(* mutant: no number is ever found among the kept ones *)
KeptAtNowhere(best, top_number) == {}

(* top_parser.py 322: where best holds top_number; best is kept as the list of
   its values in the order in which the keys were inserted *)
KeptAt(best, top_number) == { i \in 1..Len(best) : best[i].top_number = top_number }

(* top_parser.py 311-323, on blocks that carry their facts and their score *)
RECURSIVE DedupeFrom(_, _, _)
DedupeFrom(blocks, k, best) ==
    IF k > Len(blocks) THEN best
    ELSE LET at == KeptAt(best, blocks[k].top_number)
         IN IF at = {} THEN DedupeFrom(blocks, k + 1, Append(best, blocks[k]))
            ELSE IF ScoreBeats(blocks[k].score, best[The(at)].score)
                 THEN DedupeFrom(blocks, k + 1, [best EXCEPT ![The(at)] = blocks[k]])
                 ELSE DedupeFrom(blocks, k + 1, best)

(* top_parser.py 354: text[:2000] *)
ExcerptLength == 2000

(* top_parser.py 302-308: the title of the first block of each number that is
   an agenda block with a usable title, None for a number that has none *)
AgendaTitles(blocks) ==
    [n \in { blocks[i].top_number : i \in 1..Len(blocks) } |->
       LET at == { i \in 1..Len(blocks) :
                     /\ blocks[i].top_number = n
                     /\ blocks[i].facts.kind = "agenda_or_header"
                     /\ ~is_garbage_title(blocks[i].title) }
       IN IF at = {} THEN NoneStr
          ELSE blocks[CHOOSE i \in at : \A j \in at : i <= j].title]

(* mutant: the title is looked at once only *)
SelectedTitleCheckedOnce(title, agenda) ==
    IF is_garbage_title(title) /\ agenda # NoneStr THEN agenda ELSE title

(* top_parser.py 332-336: agenda is agenda_titles.get(top_no) *)
SelectedTitle(title, agenda) ==
    LET first == IF is_garbage_title(title) /\ agenda # NoneStr THEN agenda ELSE title
    IN IF is_garbage_title(first) THEN agenda ELSE first

(* top_parser.py 326-355: the record of one kept block; title_issues is not
   part of the model *)
ParsedTOP(source_file, b, agenda_titles, meeting_date) ==
    [meeting_date      |-> meeting_date,
     source_file       |-> source_file,
     top_number        |-> b.top_number,
     top_title         |-> SelectedTitle(b.title, agenda_titles[b.top_number]),
     approved          |-> b.facts.approved,
     explicit_decision |-> b.facts.explicit,
     votes_yes         |-> b.facts.votes[1],
     votes_no          |-> b.facts.votes[2],
     votes_abstain     |-> b.facts.votes[3],
     page_start        |-> b.page_start,
     page_end          |-> b.page_end,
     block_len         |-> b.len,
     raw_excerpt       |-> IF Len(b.text) > ExcerptLength
                           THEN SubSeq(b.text, 1, ExcerptLength) ELSE b.text]

(* the characters a TOP number or a date can hold, in the order of their code points *)
CodeOrder ==
    <<"\t", "\n", "\r", " ", ",", "-", ".", "/", "0", "1", "2", "3", "4", "5", "6", "7", "8",
       "9", "A", "B", "C", "D", "E", "F", "G", "H", "I", "J", "K", "L", "M", "N", "O",
       "P", "Q", "R", "S", "T", "U", "V", "W", "X", "Y", "Z", "a", "b", "c", "d", "e",
       "f", "g", "h", "i", "j", "k", "l", "m", "n", "o", "p", "q", "r", "s", "t", "u",
       "v", "w", "x", "y", "z">>

CodePoint(c) == CHOOSE k \in 1..Len(CodeOrder) : CodeOrder[k] = c

(* a < b on str *)
StrLt(a, b) ==
    \E k \in 1..(Len(a) + 1) :
        /\ k <= Len(b)
        /\ \A j \in 1..(k - 1) : a[j] = b[j]
        /\ k <= Len(a) => CodePoint(a[k]) < CodePoint(b[k])

(* top_parser.py 267-269: the leading digits as a number, then the rest of the
   line (the dot of the pattern stops at a line break) *)
sort_key_top(x) ==
    LET e == SkipDigits(x, 1)
    IN <<StrToInt(Slice(x, 1, e - 1)), Slice(x, e, LineEnd(x, e) - 1)>>

KeyLt(a, b) == a[1] < b[1] \/ (a[1] = b[1] /\ StrLt(a[2], b[2]))

(* top_parser.py 357: r.meeting_date or "9999-99-99" *)
DateOrSentinel(r) ==
    IF r.meeting_date = NoneStr
    THEN <<"9", "9", "9", "9", "-", "9", "9", "-", "9", "9">>
    ELSE r.meeting_date

(* top_parser.py 357: the key of r is less than the key of s *)
RowKeyLt(r, s) ==
    \/ StrLt(DateOrSentinel(r), DateOrSentinel(s))
    \/ /\ DateOrSentinel(r) = DateOrSentinel(s)
       /\ KeyLt(sort_key_top(r.top_number), sort_key_top(s.top_number))

(* top_parser.py 357: list.sort is stable *)
SortedByTop(rows) ==
    LET rank(i) == Cardinality({ j \in 1..Len(rows) :
                      RowKeyLt(rows[j], rows[i]) \/ (j < i /\ ~RowKeyLt(rows[i], rows[j])) }) + 1
    IN [k \in 1..Len(rows) |-> rows[CHOOSE i \in 1..Len(rows) : rank(i) = k]]

(* top_parser.py 289-291: p["text"] = normalize_text(...) on every page *)
NormalizedPages(ps) ==
    [i \in 1..Len(ps) |-> [ps[i] EXCEPT !.text = normalize_text(ps[i].text)]]

(* top_parser.py 305, 313-321 and 332: every block with what the code computes
   from its text *)
ScoredBlocks(blocks) ==
    [i \in 1..Len(blocks) |->
       The({ [top_number |-> blocks[i].top_number,
              page_start |-> blocks[i].page_start,
              page_end   |-> blocks[i].page_end,
              len        |-> blocks[i].len,
              text       |-> blocks[i].text,
              title      |-> extract_title(blocks[i].text),
              facts      |-> f,
              score      |-> ScoreFrom(f, blocks[i].len)] :
                f \in {BlockFacts(blocks[i].text, blocks[i].len)} })]

(* top_parser.py 325-357 *)
OutputRows(source_file, best, agenda_titles, meeting_date) ==
    The({ SortedByTop(rows) :
            rows \in {[i \in 1..Len(best) |->
                         ParsedTOP(source_file, best[i], agenda_titles, meeting_date)]} })

(* top_parser.py 310-357 *)
RowsOfBlocks(source_file, blocks, meeting_date) ==
    The({ OutputRows(source_file, DedupeFrom(scored, 1, <<>>), AgendaTitles(scored), meeting_date) :
            scored \in {ScoredBlocks(blocks)} })

(* top_parser.py 294-357, on the pages already normalised and joined *)
ParsedText(source_file, ps, full_text) ==
    The({ [pages  |-> ps,
           blocks |-> blocks,
           out    |-> RowsOfBlocks(source_file, blocks,
                                   extract_meeting_date(full_text, source_file))] :
            blocks \in {ApplyRewrites(split_top_blocks(full_text))} })

(* top_parser.py 293-357, on the pages already normalised *)
ParsedPages(source_file, ps) ==
    The({ ParsedText(source_file, ps, full_text) :
            full_text \in {join_pages_with_markers(ps)} })

(* top_parser.py 288-358: the pages as the call leaves them, the blocks after
   the repair of their numbers, and the list returned; Path(source_path).name
   is source_path, which the model gives no directory and writes as a str *)
parse_tops_from_corpus(c) ==
    The({ ParsedPages(c.source_path, ps) : ps \in {NormalizedPages(c.pages)} })

-----------------------------------------------------------------------------
(* One call of parse_tops_from_corpus on a corpus built from a few sections *)

TopHeader == <<"T", "O", "P", " ">>

SectionNumbers == { <<"1">>,
      <<"2">> }

(* what follows the number: a title, tallies, a decision, or the announcement *)
SectionBodies ==
    { <<" ", "B", "u", "d", "g", "e", "t">>,
      <<" ", "E", "r", "n", "e", "u", "e", "r", "u", "n", "g", " ", "d", "e", "r", " ", "H", "e", "i", "z", "u", "n", "g", "s", "a", "n", "l", "a", "g", "e", " ", "i", "m", " ", "g", "a", "n", "z", "e", "n", " ", "H", "a", "u", "s">>,
      <<"\n", "J", "a", ":", " ", "5", " ", "N", "e", "i", "n", ":", " ", "1", " ", "E", "n", "t", "h", "a", "l", "t", "u", "n", "g", ":", " ", "0">>,
      <<"\n", "a", "b", "g", "e", "l", "e", "h", "n", "t">>,
      <<"\n", "3", "/", "1", "/", "0", " ", "S", "t", "i", "m", "m", "e", "n", ",", " ", "d", "e", "r", " ", "A", "n", "t", "r", "a", "g", " ", "w", "i", "r", "d", " ", "a", "n", "g", "e", "n", "o", "m", "m", "e", "n">>,
      <<"\n", "V", "e", "r", "w", "a", "l", "t", "e", "r", " ", "v", "e", "r", "k", "ü", "n", "d", "e", "t", " ", "d", "a", "s", " ", "B", "e", "s", "c", "h", "l", "u", "s", "s", "e", "r", "g", "e", "b", "n", "i", "s">> }

(* a sub-item whose separator was lost: 21 for 2.1 *)
RunTogetherNumber == <<"2", "1">>

RunTogetherBodies ==
    { <<" ", "B", "u", "d", "g", "e", "t">>,
      <<"\n", "J", "a", ":", " ", "5", " ", "N", "e", "i", "n", ":", " ", "1", " ", "E", "n", "t", "h", "a", "l", "t", "u", "n", "g", ":", " ", "0">> }

Sections ==
    { TopHeader \o n \o b : n \in SectionNumbers, b \in SectionBodies }
        \cup { TopHeader \o RunTogetherNumber \o b : b \in RunTogetherBodies }

SectionLists == UNION { [1..n -> Sections] : n \in 0..MaxBlocks }

(* the numbers of a document in which sub-items lost their separator: 21 and
   22 next to 2, with or without a 2.1 that kept it, and a last item 19 *)
RepairNumbers == { <<"2">>, <<"2", "1">>, <<"2", ".", "1">>, <<"2", "2">>, <<"3">>, <<"1", "9">> }

RepairSections == { TopHeader \o n \o <<" ", "B", "u", "d", "g", "e", "t">> : n \in RepairNumbers }

RepairLists == [1..MaxRepairBlocks -> RepairSections]

(* what follows the number where titles matter: a title on the header line, a
   signature there, tallies right after the header, a page footer broken over
   two lines before a decision, a title followed by tallies *)
TitleBodies ==
    { <<" ", "B", "u", "d", "g", "e", "t">>,
      <<" ", "g", "e", "z", ".", " ", "V", "e", "r", "w", "a", "l", "t", "e", "r">>,
      <<"\n", "A", "b", "s", "t", "i", "m", "m", "u", "n", "g", "s", "e", "r", "g", "e", "b", "n", "i", "s", ":", " ", "J", "a", ":", " ", "5", " ", "N", "e", "i", "n", ":", " ", "1", " ", "E", "n", "t", "h", "a", "l", "t", "u", "n", "g", ":", " ", "0">>,
      <<"\n", "S", "e", "i", "t", "e", "\n", "3", " ", "v", "o", "n", " ", "5", "\n", "a", "b", "g", "e", "l", "e", "h", "n", "t">>,
      <<" ", "W", "a", "h", "l", "\n", "J", "a", ":", " ", "5", " ", "N", "e", "i", "n", ":", " ", "1", " ", "E", "n", "t", "h", "a", "l", "t", "u", "n", "g", ":", " ", "0">> }

TitleSections == { TopHeader \o n \o b : n \in SectionNumbers, b \in TitleBodies }

TitleLists == [1..MaxTitleBlocks -> TitleSections]

(* two titles of one length: blocks of one number that carry them have equal
   scores and different texts *)
TieBodies ==
    { <<" ", "B", "u", "d", "g", "e", "t">>,
      <<" ", "W", "a", "h", "l", "e", "n">> }

TieSections == { TopHeader \o n \o b : n \in SectionNumbers, b \in TieBodies }

TieLists == [1..MaxBlocks -> TieSections]

(* tallies in favour followed by a rejection, and tallies against alone *)
DecisionBodies ==
    { <<"\n", "J", "a", ":", " ", "5", " ", "N", "e", "i", "n", ":", " ", "1", " ", "E", "n", "t", "h", "a", "l", "t", "u", "n", "g", ":", " ", "0", "\n", "a", "b", "g", "e", "l", "e", "h", "n", "t">>,
      <<"\n", "J", "a", ":", " ", "1", " ", "N", "e", "i", "n", ":", " ", "5", " ", "E", "n", "t", "h", "a", "l", "t", "u", "n", "g", ":", " ", "0">> }

DecisionSections == { TopHeader \o n \o b : n \in SectionNumbers, b \in DecisionBodies }

DecisionLists == [1..MaxBlocks -> DecisionSections]

(* what follows the number on a page as an extractor gives it: a word broken
   at the end of a line, a line that ends in white space, two spaces inside
   a title *)
RawBodies ==
    { <<" ", "V", "e", "r", "-", "\n", "w", "a", "l", "t", "e", "r">>,
      <<" ", "B", "u", "d", "g", "e", "t", " ", "\n">>,
      <<" ", "W", "i", "r", "t", "s", "c", "h", "a", "f", "t", "s", " ", " ", "p", "l", "a", "n">> }

RawSections == { TopHeader \o n \o b : n \in SectionNumbers, b \in RawBodies }

RECURSIVE JoinLines(_)
JoinLines(ss) ==
    IF ss = <<>> THEN <<>>
    ELSE IF Len(ss) = 1 THEN ss[1]
    ELSE ss[1] \o <<"\n">> \o JoinLines(Tail(ss))

(* the sections on one page, or the first of them on a page of its own *)
CorpusOf(ss, paged) ==
    [source_path |-> <<"a", ".", "p", "d", "f">>,
     pages |-> IF paged
               THEN <<[page_index |-> 0, text |-> ss[1]],
                      [page_index |-> 1, text |-> JoinLines(Tail(ss))]>>
               ELSE <<[page_index |-> 0, text |-> JoinLines(ss)]>>]

(* the sections on one page of a file named after the day of the meeting *)
DatedCorpusOf(ss) == [CorpusOf(ss, FALSE) EXCEPT !.source_path = <<"1", "2", "0", "2", "2", "0", "2", "4", ".", "p", "d", "f">>]

Corpora ==
    { CorpusOf(ss, FALSE) : ss \in SectionLists }
        \cup { CorpusOf(ss, TRUE) : ss \in { x \in SectionLists : Len(x) >= 2 } }
        \cup { CorpusOf(ss, FALSE) : ss \in RepairLists }
        \cup { DatedCorpusOf(ss) : ss \in TitleLists }
        \cup { CorpusOf(<<s>>, FALSE) : s \in RawSections }
        \cup { CorpusOf(ss, FALSE) : ss \in TieLists }
        \cup { CorpusOf(ss, FALSE) : ss \in DecisionLists }

ParseStart(c) ==
    /\ corpus = c
    /\ ppc = "ready"
    /\ p_blocks = <<>>
    /\ p_out = <<>>

ParseIdle ==
    /\ corpus = [source_path |-> <<>>, pages |-> <<>>]
    /\ ppc = "idle"
    /\ p_blocks = <<>>
    /\ p_out = <<>>

(* top_parser.py 288-358 *)
Parse ==
    /\ UNCHANGED notParse
    /\ ppc = "ready"
    /\ \E r \in {parse_tops_from_corpus(corpus)} :
          /\ corpus' = [corpus EXCEPT !.pages = r.pages]
          /\ p_blocks' = r.blocks
          /\ p_out' = r.out
    /\ ppc' = "done"

ParseNext == Parse

-----------------------------------------------------------------------------
(* One call of a helper, on arguments drawn from small sets *)

Space == <<" ">>

(* words of the minutes: cues, parts of cues, and words that are no cue *)
Phrases ==
    << <<"a", "b", "g", "e", "l", "e", "h", "n", "t">>,
       <<"a", "n", "g", "e", "n", "o", "m", "m", "e", "n">>,
       <<"n", "i", "c", "h", "t">>,
       <<"w", "i", "r", "d">>,
       <<"b", "e", "s", "c", "h", "l", "o", "s", "s", "e", "n">>,
       <<"B", "e", "s", "c", "h", "l", "u", "s", "s">>,
       <<"o", "h", "n", "e">>,
       <<"b", "e", "s", "c", "h", "l", "u", "s", "s", "f", "a", "s", "s", "u", "n", "g">>,
       <<"V", "E", "R", "T", "A", "G", "T">>,
       <<"2", "/", "3">>,
       <<"M", "e", "h", "r", "h", "e", "i", "t">>,
       <<"k", "e", "i", "n", "e">> >>

RECURSIVE JoinWords(_)
JoinWords(ws) ==
    IF Len(ws) = 0 THEN <<>>
    ELSE IF Len(ws) = 1 THEN Phrases[ws[1]]
    ELSE Phrases[ws[1]] \o Space \o JoinWords(Tail(ws))

(* the texts of up to MaxPhrases words, separated by one space *)
FunTexts ==
    { JoinWords(ws) : ws \in UNION { [1..n -> 1..Len(Phrases)] : n \in 0..MaxPhrases } }

OptBools == {"True", "False", "None"}
VoteCounts == {NoneInt, 1, 5}

(* lines of a block around its tallies: a triple with and without a keyword,
   a keyword without a triple, a keyword inside a word, the labelled form *)
VoteLines ==
    { <<"S", "t", "i", "m", "m", "e", "n", " ", "5", "/", "2", "/", "1">>,
      <<"A", "n", "t", "e", "i", "l", " ", "5", "/", "2", "/", "1">>,
      <<"J", "a", "/", "N", "e", "i", "n", " ", "o", "f", "f", "e", "n">>,
      <<"o", "h", "n", "e", " ", "s", "t", "i", "m", "m", "e", "n">>,
      <<"J", "a", "h", "r", " ", "7", "/", "8", "/", "9">>,
      <<"N", "E", "I", "N", " ", "1", ".", "0", "0", "0", " ", "/", " ", "2", " ", "/", " ", "3">>,
      <<"J", "a", ":", " ", "5", " ", "N", "e", "i", "n", ":", " ", "1", " ", "E", "n", "t", "h", "a", "l", "t", "u", "n", "g", ":", " ", "0">>,
      <<"E", "n", "t", "h", " ", "4", "/", "0", "/", "1", "x">> }

(* the blocks of up to MaxVoteLines such lines *)
VoteTexts == { JoinLines(ls) : ls \in UNION { [1..n -> VoteLines] : n \in 0..MaxVoteLines } }

FunStart(op, text, explicit, yes, no) ==
    /\ f_op = op
    /\ f_text = text
    /\ f_arg = <<>>
    /\ f_explicit = explicit
    /\ f_yes = yes
    /\ f_no = no
    /\ f_done = FALSE
    /\ f_out = "None"

(* what json.loads can give for a page: an object with some of the keys of a
   page, or a value that is no object *)
PageKeys == {"page_index", "text", "char_count"}

JsonPages ==
    { [kind |-> "object", keys |-> K] : K \in SUBSET PageKeys }
        \cup { [kind |-> "string"], [kind |-> "list"] }

(* what it can give under the key pages: a list of up to MaxJsonPages such
   values, or a value that is no list *)
JsonPageLists ==
    { [kind |-> "list", items |-> ps] : ps \in UNION { [1..n -> JsonPages] : n \in 0..MaxJsonPages } }
        \cup { [kind |-> "string"], [kind |-> "null"], [kind |-> "object", keys |-> {}] }

DocumentKeys == {"source_path", "pages", "used_ocr"}

(* what it can give for the document: an object with some of the keys of a
   corpus, or a value that is no object *)
JsonDocuments ==
    { [kind |-> "object", keys |-> K] : K \in SUBSET (DocumentKeys \ {"pages"}) }
        \cup { [kind |-> "object", keys |-> K \cup {"pages"}, pages |-> v] :
                 K \in SUBSET (DocumentKeys \ {"pages"}), v \in JsonPageLists }
        \cup { [kind |-> "list", items |-> <<>>], [kind |-> "string"],
               [kind |-> "number"], [kind |-> "null"] }

(* load_corpus_json returned data *)
Returned(data) == [error |-> "None", message |-> <<>>, returned |-> data]

(* load_corpus_json raised: nothing is returned *)
Raised(error, message) == [error |-> error, message |-> message, returned |-> "nothing"]

(* mutant: a page is refused only when it lacks both fields *)
PageLacksBothFields(page) == "page_index" \notin page.keys /\ "text" \notin page.keys

(* pdf_ingest.py 160: "page_index" not in page or "text" not in page *)
PageLacksField(page) == "page_index" \notin page.keys \/ "text" \notin page.keys

(* pdf_ingest.py 157-161: the index of the first page that is refused, with
   what is wrong with it; 0 when every page passes *)
FirstBadPage(items) ==
    LET bad == { i \in 1..Len(items) :
                   items[i].kind # "object" \/ PageLacksField(items[i]) }
    IN IF bad = {} THEN 0 ELSE CHOOSE i \in bad : \A j \in bad : i <= j

(* pdf_ingest.py 148-162, from the value json.loads gave *)
load_corpus_json(data) ==
    IF data.kind # "object"
    THEN Raised("ValueError", <<"Corpus JSON must be an object">>)
    ELSE IF "source_path" \notin data.keys
    THEN Raised("ValueError", <<"Corpus JSON missing required key: ", "source_path">>)
    ELSE IF "pages" \notin data.keys
    THEN Raised("ValueError", <<"Corpus JSON missing required key: ", "pages">>)
    ELSE IF data.pages.kind # "list"
    THEN Raised("ValueError", <<"Corpus JSON 'pages' must be a list">>)
    ELSE LET i == FirstBadPage(data.pages.items)
         IN IF i = 0 THEN Returned(data)
            ELSE IF data.pages.items[i].kind # "object"
            THEN Raised("ValueError", <<"Corpus JSON page ", i - 1, " must be an object">>)
            ELSE Raised("ValueError", <<"Corpus JSON page ", i - 1, " missing required fields">>)

(* the text of minutes around the date of the meeting: the date after vom or
   am, after a word that ends in am, after another word, with a day of one
   digit, with a year of two or of five digits; and a text without a date *)
DateBodies ==
    { w \o dt \o <<" ", "P", "r", "o", "t", "o", "k", "o", "l", "l">> : w \in { <<"V", "e", "r", "s", "a", "m", "m", "l", "u", "n", "g", " ", "v", "o", "m", " ">>,
         <<"a", "m", " ">>,
         <<"k", "a", "m", " ">>,
         <<"S", "t", "a", "n", "d", " ">> },
                      dt \in { <<"1", "2", ".", "1", "2", ".", "2", "0", "2", "4">>,
         <<"1", ".", "2", ".", "2", "0", "2", "1">>,
         <<"1", "2", ".", "1", "2", ".", "2", "4">>,
         <<"3", "1", ".", "1", ".", "2", "0", "2", "4", "5">> } }
        \cup { <<"n", "o", " ", "d", "a", "t", "e">>, <<>> }

(* file names around a run of eight digits: days, months and years at and
   beyond the ends of their ranges, the run as the whole stem, after a word
   and a space, after a word and an underscore *)
FileDays == { <<"0", "0">>,
      <<"0", "1">>,
      <<"3", "1">>,
      <<"3", "2">>,
      <<"4", "0">> }
FileMonths == { <<"0", "0">>,
      <<"0", "1">>,
      <<"1", "2">>,
      <<"1", "3">> }
FileYears == { <<"1", "9", "9", "9">>,
      <<"2", "0", "0", "0">>,
      <<"2", "0", "9", "9">>,
      <<"2", "1", "0", "0">> }

DateFiles ==
    { pre \o dd \o mm \o yy \o <<".", "p", "d", "f">> :
        pre \in { <<>>,
         <<"P", "r", "o", "t", "o", "k", "o", "l", "l", " ">>,
         <<"P", "r", "o", "t", "o", "k", "o", "l", "l", "_">> },
        dd \in FileDays, mm \in FileMonths, yy \in FileYears }
        \cup { <<"f", "o", "o", ".", "p", "d", "f">> }

(* the forms in which the header pattern can hand over a number: a leading
   integer, then a separator and the digits of a sub-point or nothing, then a
   letter or nothing *)
LeadingIntegers == { <<"4">>,
      <<"1", "7">> }

Separators ==
    { <<".">>,
      <<",">>,
      <<"/">>,
      <<" ">>,
      <<"\t">>,
      <<"\n">>,
      <<" ", " ">>,
      <<" ", ".", " ">>,
      <<",", " ">> }

SubPoints == { <<"1">>,
      <<"1", "2">> }

Suffixes == { <<>>,
      <<"a">>,
      <<"B">> }

RawTopNumbers ==
    { l \o sep \o sub \o c :
        l \in LeadingIntegers, sep \in Separators, sub \in SubPoints, c \in Suffixes }
        \cup { l \o c : l \in LeadingIntegers, c \in Suffixes }

(* the numbers of the blocks of a document: items, a last item 19, numbers of
   two and three digits from 20 on, one written with a zero in front, a
   sub-item that kept its dot, a number with a letter *)
BlockNumbers ==
    { <<"2">>,
      <<"3">>,
      <<"1", "9">>,
      <<"2", "0">>,
      <<"2", "1">>,
      <<"2", "2">>,
      <<"2", ".", "1">>,
      <<"2", "1", "1">>,
      <<"0", "2", "1">>,
      <<"2", "1", "a">> }

(* the blocks of a document, of which the repair reads the numbers only *)
NumberedBlocks ==
    UNION { [1..n -> { [top_number |-> t] : t \in BlockNumbers }] : n \in 0..MaxRepairNumbers }

(* pieces of the text of a page as an extractor gives it: a word broken at
   the end of a line, a word, an umlaut written with a diaeresis of its own,
   a transport marker, blank lines, a tab among spaces *)
TextPieces ==
    { <<"V", "e", "r", "-", "\n">>,
      <<"w", "a", "l", "t", "e", "r">>,
      <<"¨", "a">>,
      <<"D", "S", "Z", "_", "A", "1">>,
      <<"\n", "\n">>,
      <<" ", "\t">> }

(* "".join(ss) *)
RECURSIVE Concat(_)
Concat(ss) == IF ss = <<>> THEN <<>> ELSE ss[1] \o Concat(Tail(ss))

(* the texts of up to MaxTextPieces pieces *)
RawTexts == { Concat(ps) : ps \in UNION { [1..n -> TextPieces] : n \in 0..MaxTextPieces } }

(* pieces of a joined text: the line of a page marker, a header line, a line
   of text *)
PagePieces ==
    { <<"<", "<", "<", "P", "A", "G", "E", ":", "0", ">", ">", ">", "\n">>,
      <<"<", "<", "<", "P", "A", "G", "E", ":", "1", ">", ">", ">", "\n">>,
      <<"T", "O", "P", " ", "1", "\n">>,
      <<"a", "b", "\n">> }

PagePieceLists == UNION { [1..n -> PagePieces] : n \in 1..MaxPagePieces }

(* the offset at which the piece k of ps begins in Concat(ps), counted from 0;
   with k = Len(ps) + 1 the length of Concat(ps) *)
PieceOffset(ps, k) == Len(Concat(SubSeq(ps, 1, k - 1)))

(* lines of a block that tell its kind or do not: a title, a decision for and
   one against, the three tallies, the yes tally alone, a triple with its
   keyword, the announcement inside a sentence and in capitals *)
KindLines ==
    { <<"n", "u", "r", " ", "a", "g", "e", "n", "d", "a">>,
      <<"w", "i", "r", "d", " ", "b", "e", "s", "c", "h", "l", "o", "s", "s", "e", "n">>,
      <<"O", "h", "n", "e", " ", "B", "e", "s", "c", "h", "l", "u", "s", "s">>,
      <<"J", "a", ":", " ", "5", " ", "N", "e", "i", "n", ":", " ", "1", " ", "E", "n", "t", "h", "a", "l", "t", "u", "n", "g", ":", " ", "0">>,
      <<"J", "a", "-", "S", "t", "i", "m", "m", "e", "n", ":", " ", "5">>,
      <<"S", "t", "i", "m", "m", "e", "n", " ", "5", "/", "2", "/", "1">>,
      <<"D", "e", "r", " ", "L", "e", "i", "t", "e", "r", " ", "v", "e", "r", "k", "ü", "n", "d", "e", "t", " ", "d", "a", "s", " ", "B", "e", "s", "c", "h", "l", "u", "s", "s", "e", "r", "g", "e", "b", "n", "i", "s", ".">>,
      <<"V", "E", "R", "K", "Ü", "N", "D", "E", "T", " ", "D", "A", "S", " ", "B", "E", "S", "C", "H", "L", "U", "S", "S", "E", "R", "G", "E", "B", "N", "I", "S">> }

(* the blocks of up to MaxKindLines such lines *)
KindTexts == { JoinLines(ls) : ls \in UNION { [1..n -> KindLines] : n \in 0..MaxKindLines } }

(* the lengths handed over with them, around the one from which a block is a
   detail block *)
KindLengths == { 10, DetailLength - 1, DetailLength, DetailLength + 100 }

(* a call whose arguments are a text and a file name or a document *)
FunStartWith(op, text, arg) ==
    /\ f_op = op
    /\ f_text = text
    /\ f_arg = arg
    /\ f_explicit = "None"
    /\ f_yes = NoneInt
    /\ f_no = NoneInt
    /\ f_done = FALSE
    /\ f_out = "None"

FunIdle == FunStart("idle", <<>>, "None", NoneInt, NoneInt)

CallDetectExplicitDecision ==
    /\ UNCHANGED notFun
    /\ f_op = "detect_explicit_decision"
    /\ ~f_done
    /\ f_out' = detect_explicit_decision(f_text)
    /\ f_done' = TRUE
    /\ UNCHANGED <<f_op, f_text, f_arg, f_explicit, f_yes, f_no>>

CallInferApproved ==
    /\ UNCHANGED notFun
    /\ f_op = "infer_approved"
    /\ ~f_done
    /\ f_out' = infer_approved(f_explicit, f_yes, f_no, f_text)
    /\ f_done' = TRUE
    /\ UNCHANGED <<f_op, f_text, f_arg, f_explicit, f_yes, f_no>>

CallParseVotesStrict ==
    /\ UNCHANGED notFun
    /\ f_op = "parse_votes_strict"
    /\ ~f_done
    /\ f_out' = parse_votes_strict(f_text)
    /\ f_done' = TRUE
    /\ UNCHANGED <<f_op, f_text, f_arg, f_explicit, f_yes, f_no>>

(* pdf_ingest.py 148-162: path.read_text and json.loads have given f_arg *)
CallLoadCorpusJson ==
    /\ UNCHANGED notFun
    /\ f_op = "load_corpus_json"
    /\ ~f_done
    /\ f_out' = load_corpus_json(f_arg)
    /\ f_done' = TRUE
    /\ UNCHANGED <<f_op, f_text, f_arg, f_explicit, f_yes, f_no>>

(* top_parser.py 256-265 *)
CallExtractMeetingDate ==
    /\ UNCHANGED notFun
    /\ f_op = "extract_meeting_date"
    /\ ~f_done
    /\ f_out' = extract_meeting_date(f_text, f_arg)
    /\ f_done' = TRUE
    /\ UNCHANGED <<f_op, f_text, f_arg, f_explicit, f_yes, f_no>>

(* top_parser.py 38-70 *)
CallNormalizeTopNumber ==
    /\ UNCHANGED notFun
    /\ f_op = "normalize_top_number"
    /\ ~f_done
    /\ f_out' = normalize_top_number(f_text)
    /\ f_done' = TRUE
    /\ UNCHANGED <<f_op, f_text, f_arg, f_explicit, f_yes, f_no>>

(* text_utils.py 23-44, called on a text and then on what it returned *)
CallNormalizeTextTwice ==
    /\ UNCHANGED notFun
    /\ f_op = "normalize_text"
    /\ ~f_done
    /\ \E once \in {normalize_text(f_text)} :
          f_out' = [once |-> once, twice |-> normalize_text(once)]
    /\ f_done' = TRUE
    /\ UNCHANGED <<f_op, f_text, f_arg, f_explicit, f_yes, f_no>>

(* top_parser.py 72-123: the mapping old -> new that is returned *)
CallRepairRunTogetherSubtops ==
    /\ UNCHANGED notFun
    /\ f_op = "repair_run_together_subtops"
    /\ ~f_done
    /\ f_out' = [t \in repair_run_together_subtops(f_arg) |-> SplitCandidate(t)]
    /\ f_done' = TRUE
    /\ UNCHANGED <<f_op, f_text, f_arg, f_explicit, f_yes, f_no>>

(* top_parser.py 139 and 147-148: the pages of the block that runs from start
   to end in full_text *)
CallPageAt ==
    /\ UNCHANGED notFun
    /\ f_op = "_page_at"
    /\ ~f_done
    /\ \E markers \in {_compute_markers(f_text)} :
          f_out' = [page_start |-> _page_at(markers, f_yes),
                    page_end   |-> _page_at(markers, f_no - 1)]
    /\ f_done' = TRUE
    /\ UNCHANGED <<f_op, f_text, f_arg, f_explicit, f_yes, f_no>>

(* top_parser.py 249-254 *)
CallClassifyBlockKind ==
    /\ UNCHANGED notFun
    /\ f_op = "classify_block_kind"
    /\ ~f_done
    /\ f_out' = classify_block_kind(f_text, f_yes)
    /\ f_done' = TRUE
    /\ UNCHANGED <<f_op, f_text, f_arg, f_explicit, f_yes, f_no>>

FunNext ==
    \/ CallDetectExplicitDecision
    \/ CallInferApproved
    \/ CallParseVotesStrict
    \/ CallLoadCorpusJson
    \/ CallExtractMeetingDate
    \/ CallNormalizeTopNumber
    \/ CallNormalizeTextTwice
    \/ CallRepairRunTogetherSubtops
    \/ CallPageAt
    \/ CallClassifyBlockKind

-----------------------------------------------------------------------------
(* Specifications: each starts one part of the program and leaves the rest idle *)

IngestIdle ==
    IngestStart(CHOOSE c \in Configs :
                   ~c.layout /\ ~c.ocr /\ c.min_avg = DefaultMinAvg
                   /\ c.layout_gain = DefaultLayoutGain)

AppIdle == AppStart(<<>>, FALSE)

IngestInit ==
    /\ \E c \in Configs : IngestStart(c)
    /\ AppIdle
    /\ FunIdle
    /\ ParseIdle

SpecIngest == IngestInit /\ [][IngestNext]_vars

AppInit ==
    /\ \E ps \in PdfLists, ff \in BOOLEAN : AppStart(ps, ff)
    /\ IngestIdle
    /\ FunIdle
    /\ ParseIdle

SpecApp == AppInit /\ [][AppNext]_vars

FunInit ==
    /\ \/ \E t \in FunTexts :
            FunStart("detect_explicit_decision", t, "None", NoneInt, NoneInt)
       \/ \E t \in FunTexts, e \in OptBools, y \in VoteCounts, n \in VoteCounts :
            FunStart("infer_approved", t, e, y, n)
       \/ \E t \in VoteTexts :
            FunStart("parse_votes_strict", t, "None", NoneInt, NoneInt)
       \/ \E data \in JsonDocuments :
            FunStartWith("load_corpus_json", <<>>, data)
       \/ \E t \in DateBodies, f \in DateFiles :
            FunStartWith("extract_meeting_date", t, f)
       \/ \E raw \in RawTopNumbers :
            FunStart("normalize_top_number", raw, "None", NoneInt, NoneInt)
       \/ \E t \in RawTexts :
            FunStart("normalize_text", t, "None", NoneInt, NoneInt)
       \/ \E blocks \in NumberedBlocks :
            FunStartWith("repair_run_together_subtops", <<>>, blocks)
       \/ \E t \in KindTexts, length \in KindLengths :
            FunStart("classify_block_kind", t, "None", length, NoneInt)
       \/ \E ps \in PagePieceLists :
            \E first \in 1..Len(ps) :
               \E last \in first..Len(ps) :
                  FunStart("_page_at", Concat(ps), "None",
                           PieceOffset(ps, first), PieceOffset(ps, last + 1))
    /\ IngestIdle
    /\ AppIdle
    /\ ParseIdle

SpecFun == FunInit /\ [][FunNext]_vars

ParseInit ==
    /\ \E c \in Corpora : ParseStart(c)
    /\ IngestIdle
    /\ AppIdle
    /\ FunIdle

SpecParse == ParseInit /\ [][ParseNext]_vars

-----------------------------------------------------------------------------
(* Claims about parse_tops_from_corpus, checked under SpecParse *)

BlocksNumbered(n) == { i \in 1..Len(p_blocks) : p_blocks[i].top_number = n }

RowsNumbered(n) == { k \in 1..Len(p_out) : p_out[k].top_number = n }

(* C1: once parse_tops_from_corpus has returned, every number carried by a
   block, the rewrites of run-together numbers applied, is the top_number of
   exactly one record of the list returned, and every record of that list
   carries the number of some block. *)
C1_OneRecordPerNumber ==
    ppc = "done" =>
        /\ \A i \in 1..Len(p_blocks) :
              Cardinality(RowsNumbered(p_blocks[i].top_number)) = 1
        /\ \A k \in 1..Len(p_out) : BlocksNumbered(p_out[k].top_number) # {}

(* two blocks of one number have been folded into one record *)
C1_Witness ==
    /\ ppc = "done"
    /\ Len(p_blocks) = 2
    /\ p_blocks[1].top_number = p_blocks[2].top_number
    /\ Len(p_out) = 1

(* the tuple of the claim, from the helpers of the code *)
Bit(p) == IF p THEN 1 ELSE 0

RankTuple(text, length) ==
    The({ <<Bit(classify_block_kind(text, length) = "detail"),
            Bit(v[1] # NoneInt /\ v[2] # NoneInt),
            Bit(detect_explicit_decision(text) # "None"),
            length>> : v \in {parse_votes_strict(text)} })

IsDetail(tuple) == tuple[1] = 1

HasBothTallies(tuple) == tuple[2] = 1

(* a comes before b in the lexicographic order, compared from the left *)
LexLess(a, b) ==
    \/ a[1] < b[1]
    \/ a[1] = b[1] /\ a[2] < b[2]
    \/ a[1] = b[1] /\ a[2] = b[2] /\ a[3] < b[3]
    \/ a[1] = b[1] /\ a[2] = b[2] /\ a[3] = b[3] /\ a[4] < b[4]

(* the tuple of every block *)
BlockTuples == [i \in 1..Len(p_blocks) |-> RankTuple(p_blocks[i].text, p_blocks[i].len)]

(* the record k was made from the block i *)
MadeFrom(k, i) ==
    /\ p_blocks[i].top_number = p_out[k].top_number
    /\ p_blocks[i].text = p_out[k].raw_excerpt
    /\ p_blocks[i].len = p_out[k].block_len
    /\ p_blocks[i].page_start = p_out[k].page_start
    /\ p_blocks[i].page_end = p_out[k].page_end

(* C2: the block retained for a number is one of the blocks of that number,
   and no block of that number has a tuple (detail kind, both tallies,
   explicit decision, length) that is lexicographically greater than its own;
   where a detail block with both tallies and an agenda_or_header block
   without tallies share a number, the block retained is a detail block with
   both tallies, whatever the lengths. *)
C2_GreatestTupleIsRetained ==
    ppc = "done" =>
        \E tuples \in {BlockTuples} :
            \A k \in 1..Len(p_out) :
                \E r \in BlocksNumbered(p_out[k].top_number) :
                    /\ MadeFrom(k, r)
                    /\ \A i \in BlocksNumbered(p_out[k].top_number) :
                          ~LexLess(tuples[r], tuples[i])
                    /\ (\E i, j \in BlocksNumbered(p_out[k].top_number) :
                            /\ IsDetail(tuples[i]) /\ HasBothTallies(tuples[i])
                            /\ ~IsDetail(tuples[j]) /\ ~HasBothTallies(tuples[j]))
                        => IsDetail(tuples[r]) /\ HasBothTallies(tuples[r])

(* a detail block with both tallies has been retained over a longer
   agenda_or_header block without tallies that came first *)
C2_Witness ==
    /\ ppc = "done"
    /\ Len(p_blocks) = 2
    /\ Len(p_out) = 1
    /\ p_blocks[1].top_number = p_blocks[2].top_number
    /\ p_blocks[1].len > p_blocks[2].len
    /\ MadeFrom(1, 2)
    /\ ~IsDetail(BlockTuples[1])
    /\ ~HasBothTallies(BlockTuples[1])
    /\ IsDetail(BlockTuples[2])
    /\ HasBothTallies(BlockTuples[2])

(* the numbers of the blocks as split_top_blocks found them in the joined
   pages, before the repair *)
SplitNumbers ==
    The({ [i \in 1..Len(bs) |-> bs[i].top_number] :
            bs \in {split_top_blocks(join_pages_with_markers(corpus.pages))} })

(* a block numbered 21 is next to a block numbered 2 *)
Has21NextTo2(ns) ==
    \E i, j \in 1..Len(ns) :
        ns[i] = <<"2", "1">> /\ ns[j] = <<"2">> /\ i - j \in {-1, 1}

(* every block numbered 21 has become a block numbered 2.1 and no record is
   numbered 21 *)
Repaired21(ns) ==
    /\ \A i \in 1..Len(ns) :
          ns[i] = <<"2", "1">> => p_blocks[i].top_number = <<"2", ".", "1">>
    /\ RowsNumbered(<<"2", "1">>) = {}

(* C13 as stated: wherever a block numbered 21 is next to a block numbered 2,
   21 is rewritten to 2.1 and no record of the list returned is numbered 21. *)
C13_AdjacentRunTogetherIsRepaired ==
    ppc = "done" =>
        \A ns \in {SplitNumbers} : Has21NextTo2(ns) => Repaired21(ns)

(* C13 amended: wherever a block numbered 21 is next to a block numbered 2, no
   block is numbered 2.1, and every block number has a leading integer that is
   21 or is at most 19, 21 is rewritten to 2.1 and no record of the
   list returned is numbered 21. *)
C13_RunTogetherIsRepairedWhenItIsAJump ==
    ppc = "done" =>
        \A ns \in {SplitNumbers} :
            (/\ Has21NextTo2(ns)
             /\ \A i \in 1..Len(ns) : ns[i] # <<"2", ".", "1">>
             /\ \A i \in 1..Len(ns) : MajorOf(ns[i]) = 21 \/ MajorOf(ns[i]) + 2 <= 21)
                => Repaired21(ns)

(* the blocks 2, 21, 3 were found and the records are numbered 2, 2.1, 3 *)
C13_Witness ==
    /\ ppc = "done"
    /\ SplitNumbers = << <<"2">>, <<"2", "1">>, <<"3">> >>
    /\ Len(p_out) = 3
    /\ p_out[2].top_number = <<"2", ".", "1">>

(* a title holds a garbage token, upper and lower case taken as one *)
HoldsGarbageToken(title) ==
    \E tok \in GARBAGE_TITLE_TOKENS : \E i \in 1..Len(title) : MatchAtI(title, i, tok)

(* a title is garbage: absent, blank, or holding a garbage token *)
GarbageTitle(title) ==
    title = NoneStr \/ Strip(title) = <<>> \/ HoldsGarbageToken(title)

(* the title extracted from every block *)
BlockTitles == [i \in 1..Len(p_blocks) |-> extract_title(p_blocks[i].text)]

(* the agenda-block title recorded for the number n: the title of the first
   agenda_or_header block of that number whose title is not garbage, None
   when there is no such block *)
RecordedAgendaTitle(titles, n) ==
    LET at == { i \in BlocksNumbered(n) :
                  /\ classify_block_kind(p_blocks[i].text, p_blocks[i].len) = "agenda_or_header"
                  /\ ~GarbageTitle(titles[i]) }
    IN IF at = {} THEN NoneStr ELSE titles[CHOOSE i \in at : \A j \in at : i <= j]

(* C15: the title of every record of the list returned is absent or is a
   non-empty string that holds none of the garbage tokens, in whatever case;
   where the title extracted from the block retained for a number is garbage
   (absent, blank or holding a token), the title of the record is the title
   recorded for that number from an agenda block, and is absent when none was
   recorded. *)
C15_TitleIsNeverGarbage ==
    ppc = "done" =>
        \E titles \in {BlockTitles} :
            \A k \in 1..Len(p_out) :
                /\ p_out[k].top_title # NoneStr =>
                      p_out[k].top_title # <<>> /\ ~HoldsGarbageToken(p_out[k].top_title)
                /\ \A r \in BlocksNumbered(p_out[k].top_number) :
                      MadeFrom(k, r) /\ GarbageTitle(titles[r]) =>
                          p_out[k].top_title = RecordedAgendaTitle(titles, p_out[k].top_number)

(* the block retained for number 2 has the title "Seite 3 von 5 abgelehnt", a
   page footer, and the record carries the title of the agenda block that
   follows it *)
C15_Witness ==
    /\ ppc = "done"
    /\ Len(p_blocks) = 2
    /\ Len(p_out) = 1
    /\ MadeFrom(1, 1)
    /\ BlockTitles[1] = <<"S", "e", "i", "t", "e", " ", "3", " ", "v", "o", "n", " ", "5", " ", "a", "b", "g", "e", "l", "e", "h", "n", "t">>
    /\ HoldsGarbageToken(BlockTitles[1])
    /\ BlockTitles[2] = <<"B", "u", "d", "g", "e", "t">>
    /\ p_out[1].top_title = <<"B", "u", "d", "g", "e", "t">>

(* the key of a record as the claim gives it: the meeting date or the
   sentinel, the leading integer of the item number, and what is left of the
   item number after its leading digits *)
OrderKey(r) ==
    LET e == SkipDigits(r.top_number, 1)
    IN << IF r.meeting_date = NoneStr THEN <<"9", "9", "9", "9", "-", "9", "9", "-", "9", "9">> ELSE r.meeting_date,
          StrToInt(SubSeq(r.top_number, 1, e - 1)),
          SubSeq(r.top_number, e, Len(r.top_number)) >>

(* the key x comes before the key y *)
OrderKeyLess(x, y) ==
    \/ StrLt(x[1], y[1])
    \/ x[1] = y[1] /\ x[2] < y[2]
    \/ x[1] = y[1] /\ x[2] = y[2] /\ StrLt(x[3], y[3])

(* C16: the records returned are in ascending order of (meeting_date or
   9999-99-99, leading integer of the item number, remainder of the item
   number), and the item number of every record begins with a digit, so that
   the key can be computed. *)
C16_RecordsAreInKeyOrder ==
    ppc = "done" =>
        /\ \A k \in 1..Len(p_out) :
              p_out[k].top_number # <<>> /\ IsDigit(p_out[k].top_number[1])
        /\ \A k \in 1..(Len(p_out) - 1) :
              ~OrderKeyLess(OrderKey(p_out[k + 1]), OrderKey(p_out[k]))

-----------------------------------------------------------------------------
(* Claims about IngestPipeline.ingest, checked under SpecIngest *)

Invoked(name) == \E i \in 1..Len(calls) : calls[i] = name

(* sum of char_count by index, for stating means independently of AvgChars *)
TotalChars(ps) ==
    LET f[i \in 0..Len(ps)] == IF i = 0 THEN 0 ELSE f[i - 1] + ps[i].char_count
    IN f[Len(ps)]

(* yield(ps) > yield(qs) * g, in integers; an empty list yields 0 *)
YieldExceeds(ps, qs, g) ==
    LET pn == TotalChars(ps)
        pd == IF Len(ps) = 0 THEN 1 ELSE Len(ps)
        qn == TotalChars(qs)
        qd == IF Len(qs) = 0 THEN 1 ELSE Len(qs)
    IN pn * qd * g[2] > qn * g[1] * pd

YieldBelow(ps, n) ==
    LET pd == IF Len(ps) = 0 THEN 1 ELSE Len(ps)
    IN TotalChars(ps) < n * pd

(* C5: the layout pages are adopted only when the layout yield is strictly
   greater than the plain yield times layout_gain_ratio; when it is not (in
   particular when both are equal, 0 = 0 included) the plain pages are kept
   and used_layout stays false. *)
C5_LayoutOnlyWhenStrictlyBetter ==
    (Invoked("layout") /\ ipc = "ocr") =>
        /\ used_layout => (YieldExceeds(pages_layout, plain_out, cfg.layout_gain)
                           /\ pages = pages_layout)
        /\ ~YieldExceeds(pages_layout, plain_out, cfg.layout_gain)
              => (~used_layout /\ pages = plain_out)

(* a non-zero layout yield exactly equal to plain yield * gain was rejected *)
C5_Witness ==
    /\ ipc = "ocr"
    /\ Invoked("layout")
    /\ TotalChars(pages_layout) > 0
    /\ ~YieldExceeds(pages_layout, plain_out, cfg.layout_gain)
    /\ ~YieldExceeds(plain_out, pages_layout, <<cfg.layout_gain[2], cfg.layout_gain[1]>>)
    /\ ~used_layout

(* C6: the OCR pages replace the current best only when the OCR yield is
   strictly greater than the current yield times ocr_gain_ratio and strictly
   greater than ocr_min_chars; otherwise the pre-OCR pages are returned and
   used_ocr is false. *)
C6_OcrOnlyWhenBothHold ==
    [][ /\ (ipc = "ocr" /\ calls' # calls /\ ~ocr_raised') =>
              LET both == /\ YieldExceeds(pages_ocr', pages, cfg.ocr_gain)
                          /\ ~YieldBelow(pages_ocr', cfg.ocr_min + 1)
              IN /\ used_ocr' => (both /\ pages' = pages_ocr')
                 /\ ~both => (pages' = pages /\ ~used_ocr')
        /\ (ipc = "return") =>
              (result'.pages = pages /\ result'.used_ocr = used_ocr) ]_vars

(* OCR passed the gain ratio but its yield equals the floor: not adopted *)
C6_Witness ==
    /\ outcome = "returned"
    /\ Invoked("ocr")
    /\ ~ocr_raised
    /\ YieldExceeds(pages_ocr, result.pages, cfg.ocr_gain)
    /\ TotalChars(pages_ocr) = cfg.ocr_min * Len(pages_ocr)
    /\ Len(pages_ocr) > 0
    /\ ~result.used_ocr

(* C7: when the OCR extractor raises, ingest does not raise: it returns with
   used_ocr false and with the pages and used_layout chosen before the OCR
   step. *)
C7_OcrFailureIsSwallowed ==
    /\ [](ocr_raised => outcome # "raised")
    /\ []((ocr_raised /\ ipc = "done") =>
             (outcome = "returned" /\ ~result.used_ocr /\ result.pages = pages
              /\ result.used_layout = used_layout))
    /\ [][(~ocr_raised /\ ocr_raised') =>
             (pages' = pages /\ used_layout' = used_layout /\ ~used_ocr'
              /\ ipc' = "return")]_vars

(* OCR raised after the layout pages had been adopted, and ingest returned them *)
C7_Witness ==
    /\ ocr_raised
    /\ outcome = "returned"
    /\ result.used_layout
    /\ result.pages = pages_layout
    /\ Len(result.pages) > 0

(* C8: the plain extractor is invoked first and exactly once; the layout
   extractor only if configured and the plain yield is below the threshold;
   the OCR extractor only if configured and the yield of the pages chosen
   after the layout step is below the threshold, never before the layout
   step. *)
C8_ExtractorOrder ==
    /\ [](/\ (calls # <<>>) => calls[1] = "plain"
          /\ (ipc # "plain") => Invoked("plain")
          /\ \A i \in 2..Len(calls) : calls[i] # "plain"
          /\ \A i, j \in 1..Len(calls) :
                (calls[i] = "ocr" /\ calls[j] = "layout") => j < i
          /\ Invoked("layout") =>
                (cfg.layout /\ YieldBelow(plain_out, cfg.min_avg)))
    /\ [][(calls' # calls /\ calls'[Len(calls')] = "ocr") =>
             (/\ ipc = "ocr"
              /\ cfg.ocr
              /\ YieldBelow(pages, cfg.min_avg))]_vars

(* all three extractors ran, in order *)
C8_Witness == calls = <<"plain", "layout", "ocr">>

(* C9: the avg_chars_per_page returned is the mean char_count of the pages
   returned, 0 when there are none. *)
C9_AvgIsMeanOfReturnedPages ==
    (outcome = "returned") =>
        LET avg == result.avg_chars_per_page
            n == Len(result.pages)
        IN /\ avg[2] > 0
           /\ IF n = 0 THEN avg[1] = 0
              ELSE avg[1] * n = TotalChars(result.pages) * avg[2]

(* OCR won with pages of different sizes and a yield other than the plain one *)
C9_Witness ==
    /\ outcome = "returned"
    /\ result.used_ocr
    /\ Len(result.pages) = 2
    /\ result.pages[1].char_count # result.pages[2].char_count
    /\ ~RatEq(result.avg_chars_per_page, a0)

(* C26: the pages returned are the OCR extractor's when used_ocr is true,
   otherwise the layout extractor's when used_layout is true, otherwise the
   plain extractor's; used_layout tells only that the layout pages were
   adopted at the layout step, and stays true when the OCR pages replace
   them afterwards. *)
C26_ReturnedPagesFollowTheFlags ==
    (outcome = "returned") =>
        /\ result.pages = IF result.used_ocr THEN pages_ocr
                          ELSE IF result.used_layout THEN pages_layout
                          ELSE plain_out
        /\ result.used_layout <=>
              (Invoked("layout") /\ YieldExceeds(pages_layout, plain_out, cfg.layout_gain))

(* the layout pages were adopted, then the OCR pages replaced them *)
C26_Witness ==
    /\ outcome = "returned"
    /\ result.used_ocr
    /\ result.used_layout
    /\ result.pages = pages_ocr
    /\ pages_ocr # pages_layout
    /\ pages_layout # plain_out

GainsAtLeastOne ==
    /\ cfg.layout_gain[1] >= cfg.layout_gain[2]
    /\ cfg.ocr_gain[1] >= cfg.ocr_gain[2]

PlainYield ==
    <<TotalChars(plain_out), IF Len(plain_out) = 0 THEN 1 ELSE Len(plain_out)>>

(* C27: when layout_gain_ratio and ocr_gain_ratio are both at least 1, the
   avg_chars_per_page returned is never lower than the plain extractor's
   yield, whatever the plain, layout and OCR pages are and whether the OCR
   extractor succeeds or fails. *)
C27_YieldNeverBelowPlain ==
    (outcome = "returned" /\ GainsAtLeastOne) =>
        ~RatLt(result.avg_chars_per_page, PlainYield)

(* with gains of at least 1 the layout pages were adopted, the OCR extractor
   failed, and the yield returned is above the plain one *)
C27_Witness ==
    /\ outcome = "returned"
    /\ GainsAtLeastOne
    /\ ocr_raised
    /\ result.used_layout
    /\ RatGt(result.avg_chars_per_page, PlainYield)
    /\ TotalChars(plain_out) > 0

-----------------------------------------------------------------------------
(* Claims about WEGTopApp.process_pdfs, checked under SpecApp *)

FileOf(rows) == [k \in 1..Len(rows) |-> rows[k].file]

Attempted == SubSeq(pdfs, 1, Len(ingest_log))

SucceededDoc(d) == \E k \in 1..Len(qa_rows) : qa_rows[k].file = d

(* C10: with fail_fast off every input document is attempted, in input order;
   a document whose ingest or parse raises adds exactly one error entry with
   its file name and message; later documents are still processed and both
   exports run. *)
C10_ErrorsDoNotStopTheRun ==
    (~fail_fast) =>
        /\ apc # "exit"
        /\ ingest_log = SubSeq(pdfs, 1, doc_i - 1)
        /\ FileOf(errors) = SelectSeq(Attempted, LAMBDA d : ~SucceededDoc(d))
        /\ \A k \in 1..Len(errors) :
              errors[k].error =
                 IF \E j \in 1..Len(parse_log) : parse_log[j] = errors[k].file
                 THEN ParseError ELSE IngestError
        /\ (apc # "loop") => ingest_log = pdfs
        /\ (apc = "done") =>
              /\ Len(export_calls) = 2
              /\ export_calls[1].name = "export"
              /\ export_calls[2].name = "export_by_year"
        /\ (apc # "done") => ENABLED AppNext

(* an ingest failure and a parse failure were each followed by a document
   that was processed, and the exports ran *)
C10_Witness ==
    /\ ~fail_fast
    /\ apc = "done"
    /\ Len(pdfs) = 3
    /\ errors = <<ErrorRow(pdfs[1], IngestError), ErrorRow(pdfs[2], ParseError)>>
    /\ FileOf(qa_rows) = <<pdfs[3]>>
    /\ Len(export_calls) = 2

(* C11: with fail_fast on, the first failure of a document ends the run: the
   run has exited with exactly that one error recorded, the failing document
   is the last one handed to pipeline.ingest and to parser.parse, neither
   parsed_tops_detail.jsonl nor errors.jsonl has been written, no exporter
   has been called, and nothing can happen any more. *)
C11_FailFastStopsAtFirstFailure ==
    (fail_fast /\ errors # <<>>) =>
        /\ apc = "exit"
        /\ Len(errors) = 1
        /\ errors[1].file = pdfs[doc_i]
        /\ ingest_log = SubSeq(pdfs, 1, doc_i)
        /\ \A j \in 1..Len(parse_log) : \E k \in 1..doc_i : parse_log[j] = pdfs[k]
        /\ FileOf(qa_rows) = SubSeq(pdfs, 1, doc_i - 1)
        /\ out_files = <<>>
        /\ export_calls = <<>>
        /\ ~ENABLED AppNext

(* the second of three documents failed under fail_fast: the third was never
   ingested *)
C11_Witness ==
    /\ fail_fast
    /\ Len(pdfs) = 3
    /\ apc = "exit"
    /\ errors = <<ErrorRow(pdfs[2], ParseError)>>
    /\ ingest_log = <<pdfs[1], pdfs[2]>>
    /\ out_files = <<>>

(* the (document, position) pairs of the records the parser returned, document
   by document in the order of the QA rows *)
RECURSIVE ReturnedKeys(_)
ReturnedKeys(k) ==
    IF k = 0 THEN <<>>
    ELSE ReturnedKeys(k - 1)
            \o [i \in 1..qa_rows[k].tops_detail |-> <<qa_rows[k].file, i>>]

RowKeys(rows) == [i \in 1..Len(rows) |-> <<rows[i].source_file, rows[i].top_number>>]

RowsOfDoc(rows, d) == SelectSeq(rows, LAMBDA r : r.source_file = d)

(* C12: all_rows is the concatenation, in input order, of the record lists of
   the documents that were processed without failure, each list in the order
   the parser returned it; the exporters are called only when every document
   has been processed or has failed, export first and export_by_year second,
   each with that list. *)
C12_RowsAreConcatenatedInInputOrder ==
    /\ FileOf(qa_rows) = SelectSeq(Attempted, SucceededDoc)
    /\ RowKeys(all_rows) = ReturnedKeys(Len(qa_rows))
    /\ \A k \in 1..Len(qa_rows) :
          \A v \in {"True", "False", "None"} :
              CountApproved(RowsOfDoc(all_rows, qa_rows[k].file), v)
                  = (CASE v = "True" -> qa_rows[k].approved
                       [] v = "False" -> qa_rows[k].rejected
                       [] OTHER -> qa_rows[k].unknown)
    /\ export_calls # <<>> =>
          /\ ingest_log = pdfs
          /\ Len(qa_rows) + Len(errors) = Len(pdfs)
          /\ export_calls[1].name = "export"
          /\ Len(export_calls) = 2 => export_calls[2].name = "export_by_year"
          /\ Len(export_calls) <= 2
          /\ \A c \in 1..Len(export_calls) : export_calls[c].all_tops_rows = all_rows

(* two documents with two records each, a failed document between them, and
   both exporters called *)
C12_Witness ==
    /\ Len(pdfs) = 3
    /\ apc = "done"
    /\ FileOf(errors) = <<pdfs[2]>>
    /\ RowKeys(all_rows) = <<<<pdfs[1], 1>>, <<pdfs[1], 2>>, <<pdfs[3], 1>>, <<pdfs[3], 2>>>>
    /\ Len(export_calls) = 2
    /\ export_calls[2].all_tops_rows = all_rows

QaRowsOf(doc) == { k \in 1..Len(qa_rows) : qa_rows[k].file = doc }

FailedDoc(doc) == \E e \in 1..Len(errors) : errors[e].file = doc

(* C30: a document whose ingest or parse raises adds nothing to the results:
   all_rows and qa_rows are after the failure what they were before it; and
   every document processed without failure has exactly one QA row, a failed
   one none. *)
C30_FailedDocumentAddsNothing ==
    /\ [][errors' # errors => (all_rows' = all_rows /\ qa_rows' = qa_rows)]_vars
    /\ [](\A d \in 1..Len(ingest_log) :
             Cardinality(QaRowsOf(ingest_log[d]))
                 = IF FailedDoc(ingest_log[d]) THEN 0 ELSE 1)

(* the ingest of the first document and the parse of the third raised, the
   second gave records: one QA row, and the records of the second only *)
C30_Witness ==
    /\ Len(pdfs) = 3
    /\ apc = "done"
    /\ errors = <<ErrorRow(pdfs[1], IngestError), ErrorRow(pdfs[3], ParseError)>>
    /\ FileOf(qa_rows) = <<pdfs[2]>>
    /\ all_rows # <<>>
    /\ \A k \in 1..Len(all_rows) : all_rows[k].source_file = pdfs[2]

-----------------------------------------------------------------------------
(* Claims about the decision helpers, checked under SpecFun *)

(* c occurs in t, stated with SubSeq *)
HasSub(t, c) ==
    \E i \in 1..(Len(t) - Len(c) + 1) : SubSeq(t, i, i + Len(c) - 1) = c

HasRejectionCue(t) == \E c \in RejectionCues : HasSub(LowerStr(t), c)
HasApprovalCue(t) == \E c \in ApprovalCues : HasSub(LowerStr(t), c)
HasQuorumKeyword(t) == \E c \in QuorumKeywords : HasSub(LowerStr(t), c)

(* C3: infer_approved returns explicit when it is present; otherwise absent
   when the block mentions a special quorum; otherwise yes > no when both
   tallies are present (a tie is false); otherwise absent. *)
C3_InferApproved ==
    (f_op = "infer_approved" /\ f_done) =>
        /\ (f_explicit # "None") => f_out = f_explicit
        /\ (f_explicit = "None" /\ HasQuorumKeyword(f_text)) => f_out = "None"
        /\ (f_explicit = "None" /\ ~HasQuorumKeyword(f_text)
               /\ f_yes # NoneInt /\ f_no # NoneInt) =>
              /\ (f_yes > f_no) => f_out = "True"
              /\ (f_yes <= f_no) => f_out = "False"
        /\ (f_explicit = "None" /\ ~HasQuorumKeyword(f_text)
               /\ (f_yes = NoneInt \/ f_no = NoneInt)) => f_out = "None"

(* a tie without explicit language or quorum was inferred as not approved *)
C3_Witness ==
    /\ f_op = "infer_approved"
    /\ f_done
    /\ f_explicit = "None"
    /\ ~HasQuorumKeyword(f_text)
    /\ f_text # <<>>
    /\ f_yes = f_no
    /\ f_yes # NoneInt
    /\ f_out = "False"

(* C4: detect_explicit_decision returns false for every block that holds a
   rejection cue, approval cues or not; true only when an approval cue is
   present and no rejection cue is; absent when neither is present. *)
C4_RejectionTakesPrecedence ==
    (f_op = "detect_explicit_decision" /\ f_done) =>
        /\ HasRejectionCue(f_text) => f_out = "False"
        /\ (f_out = "True") <=> (HasApprovalCue(f_text) /\ ~HasRejectionCue(f_text))
        /\ (f_out = "None") <=> (~HasApprovalCue(f_text) /\ ~HasRejectionCue(f_text))

(* a block holding a rejection cue and an approval cue was classified false *)
C4_Witness ==
    /\ f_op = "detect_explicit_decision"
    /\ f_done
    /\ HasRejectionCue(f_text)
    /\ HasApprovalCue(f_text)
    /\ f_out = "False"

-----------------------------------------------------------------------------
(* Claims about parse_votes_strict, checked under SpecFun *)

VoteKeywords ==
    { <<"s", "t", "i", "m", "m", "e", "n">>,
      <<"j", "a">>,
      <<"n", "e", "i", "n">>,
      <<"e", "n", "t", "h">> }

(* the line holds one of the keywords as a word of its own, in any case *)
LineHasKeyword(ln) ==
    \E w \in VoteKeywords : \E p \in 1..(Len(ln) - Len(w) + 1) :
        /\ LowerStr(SubSeq(ln, p, p + Len(w) - 1)) = w
        /\ p = 1 \/ ~IsWord(ln[p - 1])
        /\ p + Len(w) > Len(ln) \/ ~IsWord(ln[p + Len(w)])

(* ln[a..b] is a number of the triple: one to ten digits and dots *)
IsNumberRun(ln, a, b) ==
    /\ a <= b
    /\ b - a < 10
    /\ \A k \in a..b : ln[k] \in DigitSet \cup {"."}

(* between b and a lies one slash, with white space around it at most *)
IsSlashGap(ln, b, a) ==
    \E sl \in (b + 1)..(a - 1) :
        /\ ln[sl] = "/"
        /\ \A k \in ((b + 1)..(a - 1)) \ {sl} : IsSpace(ln[k])

(* a word starts or ends between ln[p - 1] and ln[p] *)
EdgeOfWord(ln, p) ==
    (p > 1 /\ IsWord(ln[p - 1])) # (p <= Len(ln) /\ IsWord(ln[p]))

(* v is the tally of a num/num/num triple that stands on its own in ln *)
IsTripleTally(ln, v) ==
    \E n1 \in 1..Len(ln) : EdgeOfWord(ln, n1) /\
    \E m1 \in n1..Len(ln) : IsNumberRun(ln, n1, m1) /\
    \E n2 \in (m1 + 2)..Len(ln) : IsSlashGap(ln, m1, n2) /\
    \E m2 \in n2..Len(ln) : IsNumberRun(ln, n2, m2) /\
    \E n3 \in (m2 + 2)..Len(ln) : IsSlashGap(ln, m2, n3) /\
    \E m3 \in n3..Len(ln) : IsNumberRun(ln, n3, m3) /\ EdgeOfWord(ln, m3 + 1) /\
        v = <<safe_int(SubSeq(ln, n1, m1)), safe_int(SubSeq(ln, n2, m2)),
              safe_int(SubSeq(ln, n3, m3))>>

VoteTallies == (0..9 \cup {1000, NoneInt}) \X (0..9 \cup {NoneInt}) \X (0..9 \cup {NoneInt})

(* the line holds a slash, a keyword and a triple *)
LineQualifies(ln) ==
    /\ \E i \in 1..Len(ln) : ln[i] = "/"
    /\ LineHasKeyword(ln)
    /\ \E v \in VoteTallies : IsTripleTally(ln, v)

(* C14: when the labelled form does not match in the block, parse_votes_strict
   returns the tally of a triple of the first line that holds a slash, one of
   the keywords stimmen, ja, nein, enth as a word (in any case) and a
   num/num/num triple, and (None, None, None) when no line holds all three:
   a triple on a line without a keyword is never accepted. *)
C14_UnlabeledTripleNeedsKeyword ==
    (f_op = "parse_votes_strict" /\ f_done /\ ~LabeledVotes(LowerStr(f_text))[1]) =>
        \E lines \in {SplitLines(f_text)} :
            \E hits \in {{ k \in 1..Len(lines) : LineQualifies(lines[k]) }} :
                IF hits = {} THEN f_out = NoVotes
                ELSE \E k \in hits :
                        /\ \A x \in hits : k <= x
                        /\ IsTripleTally(lines[k], f_out)

(* a triple on a line without a keyword was passed over and the triple of the
   next line, which holds a keyword, was returned *)
C14_Witness ==
    /\ f_op = "parse_votes_strict"
    /\ f_done
    /\ f_text = JoinLines(<<<<"A", "n", "t", "e", "i", "l", " ", "5", "/", "2", "/", "1">>, <<"N", "E", "I", "N", " ", "1", ".", "0", "0", "0", " ", "/", " ", "2", " ", "/", " ", "3">>>>)
    /\ f_out = <<1000, 2, 3>>

(* C22: every block whose number the repair of run-together numbers changed
   during parse_tops_from_corpus has, at most one place from itself in the
   order of the document, a block whose leading integer is its base; a block
   that carries the same number and has no such neighbour keeps its number. *)
C22_ChangedBlockHasBaseNextToIt ==
    ppc = "done" =>
        \A ns \in {SplitNumbers} :
            \A i \in 1..Len(ns) :
                p_blocks[i].top_number # ns[i] =>
                    \E j \in 1..Len(ns) :
                        /\ j - i \in {-1, 1}
                        /\ MajorOf(ns[j]) = StrToInt(SubSeq(ns[i], 1, Len(ns[i]) - 1))

(* C25: parse_tops_from_corpus leaves the corpus it is given as it was: the
   text of every page and every other field are after the call what they were
   before it. *)
C25_ParseLeavesTheCorpusUnchanged == [][corpus' = corpus]_vars

(* C28: among the blocks of one number whose tuples are equal the earliest
   in document order is retained: the block a record was made from has a
   tuple strictly greater than that of every earlier block of its number. *)
C28_EarliestOfEqualTuplesIsRetained ==
    ppc = "done" =>
        \E tuples \in {BlockTuples} :
            \A k \in 1..Len(p_out) :
                \E r \in BlocksNumbered(p_out[k].top_number) :
                    /\ MadeFrom(k, r)
                    /\ \A i \in BlocksNumbered(p_out[k].top_number) :
                          i < r => LexLess(tuples[i], tuples[r])

(* two blocks of one number with equal tuples that differ otherwise: the
   record was made from the first and not from the second *)
C28_Witness ==
    /\ ppc = "done"
    /\ Len(p_blocks) = 2
    /\ Len(p_out) = 1
    /\ p_blocks[1].top_number = p_blocks[2].top_number
    /\ BlockTuples[1] = BlockTuples[2]
    /\ MadeFrom(1, 1)
    /\ ~MadeFrom(1, 2)

(* C29: in every record returned, approved equals explicit_decision when
   that is present; and when explicit_decision is absent and approved is
   present, votes_yes and votes_no are both present and approved tells
   whether votes_yes > votes_no. *)
C29_ApprovedAgreesWithItsRecord ==
    ppc = "done" =>
        \A k \in 1..Len(p_out) :
            /\ p_out[k].explicit_decision # "None"
                  => p_out[k].approved = p_out[k].explicit_decision
            /\ (p_out[k].explicit_decision = "None" /\ p_out[k].approved # "None") =>
                  /\ p_out[k].votes_yes # NoneInt
                  /\ p_out[k].votes_no # NoneInt
                  /\ p_out[k].approved = "True" <=> p_out[k].votes_yes > p_out[k].votes_no

(* one record whose rejection stands against tallies in favour, and one
   record whose rejection comes from the tallies alone *)
C29_Witness ==
    /\ ppc = "done"
    /\ Len(p_out) = 2
    /\ \E k \in 1..2 :
          /\ p_out[k].explicit_decision = "False"
          /\ p_out[k].votes_yes > p_out[k].votes_no
          /\ p_out[k].votes_no # NoneInt
          /\ p_out[k].approved = "False"
    /\ \E k \in 1..2 :
          /\ p_out[k].explicit_decision = "None"
          /\ p_out[k].votes_yes # NoneInt
          /\ p_out[k].votes_yes < p_out[k].votes_no
          /\ p_out[k].approved = "False"

-----------------------------------------------------------------------------
(* Claims about load_corpus_json, checked under SpecFun *)

(* the document passes every check of the claim *)
IsCorpus(data) ==
    /\ data.kind = "object"
    /\ {"source_path", "pages"} \subseteq data.keys
    /\ data.pages.kind = "list"
    /\ \A i \in 1..Len(data.pages.items) :
          /\ data.pages.items[i].kind = "object"
          /\ {"page_index", "text"} \subseteq data.pages.items[i].keys

(* C17: load_corpus_json raises a ValueError and returns nothing whenever the
   loaded document is not an object, lacks source_path or pages, has under
   pages a value that is not a list, or has a page that is not an object or
   lacks page_index or text; when the document passes all these checks, and
   only then, it returns the document as it was loaded. *)
C17_LoadCorpusJsonValidates ==
    (f_op = "load_corpus_json" /\ f_done) =>
        IF IsCorpus(f_arg)
        THEN f_out.error = "None" /\ f_out.returned = f_arg
        ELSE f_out.error = "ValueError" /\ f_out.returned = "nothing"

(* a document of two pages was refused for its second page, which has its
   text and no page_index *)
C17_Witness ==
    /\ f_op = "load_corpus_json"
    /\ f_done
    /\ f_arg.kind = "object"
    /\ f_arg.keys = {"source_path", "pages"}
    /\ f_arg.pages.kind = "list"
    /\ Len(f_arg.pages.items) = 2
    /\ f_arg.pages.items[1] = [kind |-> "object", keys |-> {"page_index", "text"}]
    /\ f_arg.pages.items[2] = [kind |-> "object", keys |-> {"text"}]
    /\ f_out.error = "ValueError"
    /\ f_out.returned = "nothing"

-----------------------------------------------------------------------------
(* Claims about extract_meeting_date, checked under SpecFun *)

(* the digits of t from a to b - 1 are a number of one or two digits *)
IsShortNumber(t, a, b) ==
    /\ b - a \in {1, 2}
    /\ b <= Len(t)
    /\ \A j \in a..(b - 1) : IsDigit(t[j])

(* the dates that stand in the body after the word vom or am, each with the
   index of that word: white space after the word, then day, month and year
   with a dot between them, day and month of one or two digits, the year of
   four, the word and the year ending at a word boundary *)
BodyDates(t) ==
    { <<z[1], DateString(SubSeq(t, z[3], z[4] - 2), SubSeq(t, z[4], z[5] - 2),
                         SubSeq(t, z[5], z[5] + 3))>> :
        z \in
          { x \in { <<i, w, SkipSpaces(t, i + w), SkipSpaces(t, i + w) + n,
                      SkipSpaces(t, i + w) + n + m>> :
                      i \in 1..Len(t), w \in {2, 3}, n \in {2, 3}, m \in {2, 3} } :
              /\ WordBoundary(t, x[1])
              /\ MatchAtI(t, x[1], IF x[2] = 3 THEN <<"v", "o", "m">> ELSE <<"a", "m">>)
              /\ x[3] > x[1] + x[2]
              /\ IsShortNumber(t, x[3], x[4] - 1) /\ t[x[4] - 1] = "."
              /\ IsShortNumber(t, x[4], x[5] - 1) /\ t[x[5] - 1] = "."
              /\ x[5] + 3 <= Len(t)
              /\ \A j \in x[5]..(x[5] + 3) : IsDigit(t[j])
              /\ WordBoundary(t, x[5] + 4) } }

(* the dates of the runs of eight digits DDMMYYYY of the file name whose day
   is in 01..31, month in 01..12 and year in 2000..2099 *)
ValidFileDates(f) ==
    { DateString(SubSeq(f, i, i + 1), SubSeq(f, i + 2, i + 3), SubSeq(f, i + 4, i + 7)) :
        i \in { j \in 1..(Len(f) - 7) :
                  /\ \A k \in j..(j + 7) : IsDigit(f[k])
                  /\ StrToInt(SubSeq(f, j, j + 1)) \in 1..31
                  /\ StrToInt(SubSeq(f, j + 2, j + 3)) \in 1..12
                  /\ StrToInt(SubSeq(f, j + 4, j + 7)) \in 2000..2099 } }

(* C18: where the body holds a date after vom or am, extract_meeting_date
   returns the first such date, whatever the file name; otherwise what it
   returns is absent or is the date of a run of eight digits DDMMYYYY of the
   file name whose day is in 01..31, month in 01..12 and year in 2000..2099. *)
C18_MeetingDateFromBodyThenFile ==
    (f_op = "extract_meeting_date" /\ f_done) =>
        \E found \in {BodyDates(f_text)} :
            IF found # {}
            THEN \E x \in found : f_out = x[2] /\ \A y \in found : x[1] <= y[1]
            ELSE f_out = NoneStr \/ f_out \in ValidFileDates(f_arg)

-----------------------------------------------------------------------------
(* Claims about normalize_top_number, checked under SpecFun *)

(* raw is the leading integer l, the separator sep, the digits sub of the
   sub-point and the suffix c, a letter or nothing *)
IsSubPointForm(raw, l, sep, sub, c) ==
    /\ raw = l \o sep \o sub \o c
    /\ l # <<>> /\ \A i \in 1..Len(l) : IsDigit(l[i])
    /\ sub # <<>> /\ \A i \in 1..Len(sub) : IsDigit(sub[i])
    /\ Len(c) <= 1 /\ \A i \in 1..Len(c) : IsAsciiLetter(c[i])

(* a separator of the claim: a dot, a comma, a slash, or white space *)
IsClaimedSeparator(sep) ==
    \/ sep \in { <<".">>, <<",">>, <<"/">> }
    \/ sep # <<>> /\ \A i \in 1..Len(sep) : IsSpace(sep[i])

(* the ways to cut raw into four parts *)
Cuts(raw) ==
    { <<SubSeq(raw, 1, x), SubSeq(raw, x + 1, y), SubSeq(raw, y + 1, z), SubSeq(raw, z + 1, Len(raw))>> :
        x \in 1..Len(raw), y \in 1..Len(raw), z \in 1..Len(raw) }

(* C19: for a leading integer L, the digits S of a sub-point and a suffix c, a
   letter or nothing, normalize_top_number returns L.S followed by c in lower
   case whether L and S are separated by a dot, a comma, a slash or white
   space; a number that has only a letter after its leading integer, such as
   4a, is returned as it is, the letter in lower case. *)
C19_SeparatorsGiveOneCanonicalForm ==
    (f_op = "normalize_top_number" /\ f_done) =>
        /\ \A p \in Cuts(f_text) :
              (/\ p[1] \o p[2] \o p[3] \o p[4] = f_text
               /\ IsSubPointForm(f_text, p[1], p[2], p[3], p[4])
               /\ IsClaimedSeparator(p[2]))
                  => f_out = p[1] \o <<".">> \o p[3] \o LowerStr(p[4])
        /\ \A p \in Cuts(f_text) :
              (/\ p[2] = <<>> /\ p[3] = <<>> /\ Len(p[4]) = 1
               /\ p[1] \o p[4] = f_text
               /\ \A i \in 1..Len(p[1]) : IsDigit(p[1][i])
               /\ IsAsciiLetter(p[4][1]))
                  => f_out = p[1] \o LowerStr(p[4])

-----------------------------------------------------------------------------
(* Claims about normalize_text, checked under SpecFun *)

(* C20: normalize_text is idempotent: for every text x,
   normalize_text(normalize_text(x)) is normalize_text(x). *)
C20_NormalizeTextIsIdempotent ==
    (f_op = "normalize_text" /\ f_done) => f_out.twice = f_out.once

-----------------------------------------------------------------------------
(* Claims about repair_run_together_subtops, checked under SpecFun *)

(* the integer the digits at the front of t write *)
LeadOf(t) == StrToInt(SubSeq(t, 1, CHOOSE e \in 0..Len(t) :
                 /\ \A k \in 1..e : IsDigit(t[k])
                 /\ (e = Len(t) \/ ~IsDigit(t[e + 1]))))

(* t is two or three bare digits *)
IsBareNumber(t) == Len(t) \in {2, 3} /\ \A k \in 1..Len(t) : IsDigit(t[k])

(* base.sub of a bare number: its value without the last digit, a dot, its
   last digit *)
BaseDotSub(t) == IntToStr(StrToInt(t) \div 10) \o <<".">> \o IntToStr(StrToInt(t) % 10)

(* the conditions under which t, one of the numbers ns, is to be rewritten *)
IsRunTogether(ns, t) ==
    /\ IsBareNumber(t)
    /\ StrToInt(t) >= 20
    /\ \A i \in 1..Len(ns) : ns[i] # BaseDotSub(t)
    /\ \E i \in 1..Len(ns) : LeadOf(ns[i]) = StrToInt(t) \div 10
    /\ \E i, j \in 1..Len(ns) :
          /\ ns[i] = t
          /\ LeadOf(ns[j]) = StrToInt(t) \div 10
          /\ i - j \in {-1, 0, 1}
    /\ \A i \in 1..Len(ns) :
          LeadOf(ns[i]) # StrToInt(t) => StrToInt(t) >= LeadOf(ns[i]) + 2

(* C21: the mapping repair_run_together_subtops returns has t as a key
   exactly when t is a number of the blocks, of two or three bare digits and
   at least 20, base.sub is no number of the blocks, base is the leading
   integer of a number of the blocks, a block whose leading integer is base is
   at most one place from a block numbered t, and t is at least 2 more than
   every leading integer other than its own; the key t is mapped to base.sub.
   All of it is read from the numbers as they were given. *)
C21_RepairMapsExactlyTheRunTogether ==
    (f_op = "repair_run_together_subtops" /\ f_done) =>
        \E ns \in {[i \in 1..Len(f_arg) |-> f_arg[i].top_number]} :
            /\ DOMAIN f_out \subseteq { ns[i] : i \in 1..Len(ns) }
            /\ \A i \in 1..Len(ns) :
                  /\ ns[i] \in DOMAIN f_out <=> IsRunTogether(ns, ns[i])
                  /\ ns[i] \in DOMAIN f_out => f_out[ns[i]] = BaseDotSub(ns[i])

(* the numbers 211, 21, 3 were given: 211 is mapped to 21.1, and 21, whose base
   2 is nowhere, is not a key *)
C21_Witness ==
    /\ f_op = "repair_run_together_subtops" /\ f_done
    /\ [i \in 1..Len(f_arg) |-> f_arg[i].top_number] = << <<"2", "1", "1">>, <<"2", "1">>, <<"3">> >>
    /\ DOMAIN f_out = { <<"2", "1", "1">> }
    /\ f_out[<<"2", "1", "1">>] = <<"2", "1", ".", "1">>

-----------------------------------------------------------------------------
(* Claims about the pages of a block, checked under SpecFun *)

(* the page of the last marker of the table mk that begins at or before pos,
   None when there is none *)
LastPageAtOrBefore(mk, pos) ==
    IF \A k \in 1..Len(mk) : mk[k].s > pos THEN NoneInt
    ELSE mk[CHOOSE k \in 1..Len(mk) :
                /\ mk[k].s <= pos
                /\ \A j \in 1..Len(mk) : mk[j].s <= pos => mk[j].s <= mk[k].s].p

(* C23: of a block that runs from start to end, page_start is the page of the
   last marker at or before start and page_end the page of the last marker at
   or before end - 1, the offset of its last character; when the block ends
   where the marker of a page begins, page_end is the page of the marker
   before that one, the page the block closes on. *)
C23_PagesOfABlock ==
    (f_op = "_page_at" /\ f_done) =>
        \E mk \in {_compute_markers(f_text)} :
            /\ f_out.page_start = LastPageAtOrBefore(mk, f_yes)
            /\ f_out.page_end = LastPageAtOrBefore(mk, f_no - 1)
            /\ \A k \in 2..Len(mk) : mk[k].s = f_no => f_out.page_end = mk[k - 1].p

(* the block is the header line between the markers of pages 0 and 1 and ends
   where the marker of page 1 begins: it is on page 0 from start to end *)
C23_Witness ==
    /\ f_op = "_page_at" /\ f_done
    /\ f_text = <<"<", "<", "<", "P", "A", "G", "E", ":", "0", ">", ">", ">", "\n", "T", "O", "P", " ", "1", "\n", "<", "<", "<", "P", "A", "G", "E", ":", "1", ">", ">", ">", "\n">>
    /\ f_yes = 13 /\ f_no = 19
    /\ f_out = [page_start |-> 0, page_end |-> 0]

-----------------------------------------------------------------------------
(* Claims about classify_block_kind, checked under SpecFun *)

(* the text holds the phrase that announces a result, in any case *)
HoldsAnnouncement(t) == \E i \in 1..Len(t) : MatchAtI(t, i, AnnouncementPhrase)

(* C24: classify_block_kind returns "detail" exactly when the block has a yes
   tally and a no tally, or an explicit decision, or a length of at least 500,
   or holds the phrase that announces a result; otherwise it returns
   "agenda_or_header". *)
C24_DetailExactlyWhenOneSignHolds ==
    (f_op = "classify_block_kind" /\ f_done) =>
        \E v \in {parse_votes_strict(f_text)} :
            IF \/ v[1] # NoneInt /\ v[2] # NoneInt
               \/ detect_explicit_decision(f_text) # "None"
               \/ f_yes >= 500
               \/ HoldsAnnouncement(f_text)
            THEN f_out = "detail"
            ELSE f_out = "agenda_or_header"

(* a block of length 500 with neither tallies nor a decision nor the phrase is
   a detail block *)
C24_Witness ==
    /\ f_op = "classify_block_kind" /\ f_done
    /\ f_text = <<"n", "u", "r", " ", "a", "g", "e", "n", "d", "a", "\n", "J", "a", "-", "S", "t", "i", "m", "m", "e", "n", ":", " ", "5">>
    /\ f_yes = 500
    /\ f_out = "detail"

=============================================================================
